---- MODULE Spec2Model ----
(***************************************************************************)
(* Model of the gnomo trading front end:                                   *)
(*   - the local price-history store (frontend/lib/priceHistory.ts)        *)
(*   - the swap form's route selection and swap submission                 *)
(*     (frontend/app/page.tsx: updateQuote, handleSwap, ...)               *)
(*                                                                         *)
(* Time is in milliseconds since an arbitrary origin (Date.now() minus a   *)
(* constant).  Prices are JavaScript numbers in the source; the model      *)
(* keeps them as integer multiples of a fixed small unit so that the       *)
(* comparisons the code makes are exact.                                   *)
(***************************************************************************)
EXTENDS Integers, Sequences, FiniteSets, TLC

VARIABLES
  store,        \* localStorage[STORAGE_KEY]: NoData or a StorageData record
  now,          \* Date.now()
  ticks,        \* number of clock advances so far (bounds the run)
  calls,        \* number of recordPrice calls so far (bounds the run)
  lastCall,     \* the last history operation and its arguments
  appended,     \* history variable: every point recordPrice pushed, per pair
  statsOut,     \* return value of the last getPriceStats call
  \* --- page.tsx, swap form ---
  pools,        \* useState<PoolInfo[]>: the V2 pools last fetched
  clmmPools,    \* useState<CLMMPool[]>: the CLMM pools last fetched
  fromToken,    \* selected source token, "" when none
  toToken,      \* selected destination token, "" when none
  fromAmount,   \* text of the input field: <<>> is '', <<n>> is n micro-units
  toAmount,     \* text of the output field, same encoding
  bestQuote,    \* BestQuoteResult or NoQuote
  quoteAmountIn, \* history: the amountIn of the updateQuote call that set bestQuote
  slippageBps,  \* slippage tolerance in basis points
  walletAddress,\* connected wallet address, "" when none
  quoteLoading, \* spinner of the quote
  swapLoading,  \* a swap is waiting for the wallet
  timerArmed,   \* the 300 ms debounce timer of updateQuote is pending
  runs,         \* updateQuote invocations waiting for a quote to return
  done,         \* history variable: the updateQuote invocation that just completed
  swapCall,     \* history variable: the swap handleSwap just handed to the wallet
  \* --- priceHistory.ts called from several browser tabs ---
  tabs,         \* per tab: where its recordPrice call stands and what it read
  \* --- page.tsx, positions tab ---
  clmmPositions,\* useState<CLMMPosition[]>: the positions last fetched
  cards,        \* what the last render of the positions tab shows, per position
  \* --- page.tsx, mint form ---
  selectedClmmPool, \* the CLMMPool picked in the mint form, or NoPoolSelected
  mintTickLower,    \* lower tick of the new position
  mintTickUpper,    \* upper tick of the new position
  mintPriceLower,   \* text of the Min Price field
  mintPriceUpper,   \* text of the Max Price field
  mintAmountA,      \* text of the token A amount field
  mintAmountB,      \* text of the token B amount field
  clmmLoading,      \* a CLMM transaction is waiting for the wallet
  mintCall,     \* history variable: what handleMintPosition handed to mintCLMMPosition
  \* --- the realm's GetQuote ---
  quoted,       \* the pool V2 quotes are asked of and the answers so far
  \* --- clmm.ts conversions ---
  conv,         \* the tick and price conversions made so far, with their results
  \* --- page.tsx, a transaction handler with its toast and its refreshes ---
  tx            \* where handleSwap stands, its toast, and what onRefresh recorded

hvars == <<store, now, ticks, calls, lastCall, appended, statsOut>>

svars == <<pools, clmmPools, fromToken, toToken, fromAmount, toAmount, bestQuote, quoteAmountIn,
           slippageBps, walletAddress, quoteLoading, swapLoading, timerArmed,
           runs, done, swapCall>>

tvars == <<tabs>>

pvars == <<clmmPositions, cards>>

mvars == <<selectedClmmPool, mintTickLower, mintTickUpper, mintPriceLower,
           mintPriceUpper, mintAmountA, mintAmountB, clmmLoading, mintCall>>

qvars == <<quoted>>

evars == <<conv, tx>>

\* everything but the history store, everything but the swap form
notHistory == <<svars, tvars, pvars, mvars, qvars, evars>>

notSwap == <<hvars, tvars, pvars, mvars, qvars, evars>>

vars == <<store, now, ticks, calls, lastCall, appended, statsOut,
          pools, clmmPools, fromToken, toToken, fromAmount, toAmount, bestQuote, quoteAmountIn,
          slippageBps, walletAddress, quoteLoading, swapLoading, timerArmed,
          runs, done, swapCall, tabs, clmmPositions, cards, selectedClmmPool,
          mintTickLower, mintTickUpper, mintPriceLower, mintPriceUpper,
          mintAmountA, mintAmountB, clmmLoading, mintCall, quoted, conv, tx>>

\* ------------------------------------------------------------------------
\* Bounds of the model
\* ------------------------------------------------------------------------
MaxTicks == 3
MaxCalls == 3
MaxRuns == 1        \* updateQuote invocations in flight at a time

\* ------------------------------------------------------------------------
\* priceHistory.ts: constants
\* ------------------------------------------------------------------------
MAX_DATA_POINTS == 100
MAX_AGE_MS == 24 * 60 * 60 * 1000
CLEANUP_INTERVAL_MS == 60 * 60 * 1000
MIN_INTERVAL_MS == 30000
DAY_MS == 24 * 60 * 60 * 1000

\* pair labels as produced by formatPairName
PairNames == {"A/B", "A/C"}

\* prices offered to recordPrice.  1001 -> 1000 is a change below 0.1%
\* (1/1001), 1000 -> 1001 is a change of exactly 0.1%.
PriceVals == {1000, 1001}

\* clock advances: 10 s, one hour, 23.5 hours
Deltas == {10000, 3600000, 84600000}

\* localStorage.getItem(STORAGE_KEY) === null
NoData == [item |-> "null"]
\* the item holds text JSON.parse rejects
Unparseable == [item |-> "unparseable"]
\* the item holds the text null: JSON.parse returns null
JsonNull == [item |-> "json null"]
\* the item holds the text {}: JSON.parse returns an object without `pairs`
NoPairsMap == [item |-> "object without pairs"]
\* getPriceStats returned null
NoStats == [stats |-> "null"]
NoCall == [op |-> "none"]

\* ------------------------------------------------------------------------
\* helpers: JavaScript array operations
\* ------------------------------------------------------------------------
Abs(x) == IF x < 0 THEN -x ELSE x

\* Array.prototype.slice(-n): the last n elements
SliceLast(s, n) ==
  IF Len(s) <= n THEN s ELSE SubSeq(s, Len(s) - n + 1, Len(s))

\* points.filter(p => p.timestamp > cutoff)
FilterSeq(s, cutoff) == SelectSeq(s, LAMBDA p : p.timestamp > cutoff)

\* Math.max(...prices), Math.min(...prices) of a non-empty array of points
MaxPrice(s) ==
  LET prices == {s[i].price : i \in 1..Len(s)}
  IN CHOOSE m \in prices : \A q \in prices : q <= m

MinPrice(s) ==
  LET prices == {s[i].price : i \in 1..Len(s)}
  IN CHOOSE m \in prices : \A q \in prices : m <= q

EmptyPairs == [p \in {} |-> <<>>]

\* ------------------------------------------------------------------------
\* priceHistory.ts: functions
\* ------------------------------------------------------------------------
\* getStorageData: the parsed item, or a fresh record when there is none
getStorageData(s, t) ==
  IF s = NoData \/ s = Unparseable
  THEN [pairs |-> EmptyPairs, lastCleanup |-> t]
  ELSE s

\* recordPrice, lines 106-108: trim to max points.
\* KeepOldest is the variant that keeps the first MAX_DATA_POINTS points.
KeepOldest(points) ==
  IF Len(points) > MAX_DATA_POINTS THEN SubSeq(points, 1, MAX_DATA_POINTS) ELSE points
TrimToMax(points) ==
  IF Len(points) > MAX_DATA_POINTS THEN SliceLast(points, MAX_DATA_POINTS) ELSE points

\* cleanupOldData
cleanupOldData(data, t) ==
  LET cutoff == t - MAX_AGE_MS
      kept == {p \in DOMAIN data.pairs : FilterSeq(data.pairs[p], cutoff) # <<>>}
  IN [pairs |-> [p \in kept |-> SliceLast(FilterSeq(data.pairs[p], cutoff), MAX_DATA_POINTS)],
      lastCleanup |-> t]

\* recordPrice, line 78: is the hourly sweep due?
CleanupDue(data, t) == t - data.lastCleanup > CLEANUP_INTERVAL_MS

\* recordPrice, lines 94-97: the point is dropped as a duplicate.
\* priceDiff < 0.001 is |price - last| / last < 1/1000.
\* IsDuplicateEither is the variant that joins the two tests with ||.
IsDuplicateEither(lastPoint, price, t) ==
  \/ t - lastPoint.timestamp < MIN_INTERVAL_MS
  \/ Abs(price - lastPoint.price) * 1000 < lastPoint.price
IsDuplicate(lastPoint, price, t) ==
  /\ t - lastPoint.timestamp < MIN_INTERVAL_MS
  /\ Abs(price - lastPoint.price) * 1000 < lastPoint.price

\* data.pairs[pair] after "Initialize pair if needed"
PointsOf(data, pair) ==
  IF pair \in DOMAIN data.pairs THEN data.pairs[pair] ELSE <<>>

\* recordPrice: the value of localStorage[STORAGE_KEY] when the call returns
recordPrice(s, pair, price, t) ==
  IF price <= 0 THEN s
  ELSE
    LET data == getStorageData(s, t)
        swept == IF CleanupDue(data, t) THEN cleanupOldData(data, t) ELSE data
        points == PointsOf(swept, pair)
    IN IF points # <<>> /\ IsDuplicate(points[Len(points)], price, t)
       THEN s       \* return before setStorageData
       ELSE
         LET pushed == Append(points, [timestamp |-> t, price |-> price])
             trimmed == TrimToMax(pushed)
         IN [pairs |-> [p \in DOMAIN swept.pairs \cup {pair} |->
                          IF p = pair THEN trimmed ELSE swept.pairs[p]],
             lastCleanup |-> swept.lastCleanup]

\* did that call push a point?
Pushes(s, pair, price, t) ==
  /\ price > 0
  /\ LET data == getStorageData(s, t)
         swept == IF CleanupDue(data, t) THEN cleanupOldData(data, t) ELSE data
         points == PointsOf(swept, pair)
     IN ~(points # <<>> /\ IsDuplicate(points[Len(points)], price, t))

\* getPriceHistory
getPriceHistory(s, pair, t) == PointsOf(getStorageData(s, t), pair)

\* getPriceStatsRecentOnly is the variant that filters before it looks for
\* the current price and has nothing to report without a recent point.
getPriceStatsRecentOnly(s, pair, t) ==
  LET recentPoints == FilterSeq(getPriceHistory(s, pair, t), t - DAY_MS)
  IN IF recentPoints = <<>> THEN NoStats
     ELSE LET current == recentPoints[Len(recentPoints)].price
              oldestRecent == recentPoints[1].price
          IN [current |-> current,
              change24h |-> current - oldestRecent,
              changePercent24h |-> <<(current - oldestRecent) * 100, oldestRecent>>,
              high24h |-> MaxPrice(recentPoints),
              low24h |-> MinPrice(recentPoints)]

\* getPriceStatsOldestStored is the variant that measures the change
\* against the first stored point instead of the first recent one.
getPriceStatsOldestStored(s, pair, t) ==
  LET points == getPriceHistory(s, pair, t)
      recentPoints == FilterSeq(points, t - DAY_MS)
  IN IF points = <<>> THEN NoStats
     ELSE LET current == points[Len(points)].price IN
          IF recentPoints = <<>>
          THEN [current |-> current, change24h |-> 0, changePercent24h |-> <<0, 1>>,
                high24h |-> current, low24h |-> current]
          ELSE [current |-> current,
                change24h |-> current - points[1].price,
                changePercent24h |-> <<(current - points[1].price) * 100, points[1].price>>,
                high24h |-> MaxPrice(recentPoints),
                low24h |-> MinPrice(recentPoints)]

\* getPriceStats.  changePercent24h is the fraction <<numerator, denominator>>.
getPriceStats(s, pair, t) ==
  LET points == getPriceHistory(s, pair, t)
      dayAgo == t - DAY_MS
      recentPoints == FilterSeq(points, dayAgo)
  IN IF points = <<>> THEN NoStats
     ELSE LET current == points[Len(points)].price IN
          IF recentPoints = <<>>
          THEN [current |-> current, change24h |-> 0, changePercent24h |-> <<0, 1>>,
                high24h |-> current, low24h |-> current]
          ELSE LET oldestRecent == recentPoints[1].price
                   change24h == current - oldestRecent
               IN [current |-> current,
                   change24h |-> change24h,
                   changePercent24h |-> <<change24h * 100, oldestRecent>>,
                   high24h |-> MaxPrice(recentPoints),
                   low24h |-> MinPrice(recentPoints)]

\* ------------------------------------------------------------------------
\* The store a browser can hold when the page loads: nothing, or the series
\* left by 99 earlier recordPrice calls made 30 s apart at one price (the
\* first of them at time 0 created the record, so lastCleanup = 0).
\* ------------------------------------------------------------------------
SeedLen == 99
SeedSeries == [i \in 1..SeedLen |-> [timestamp |-> (i - 1) * MIN_INTERVAL_MS, price |-> 1001]]
SeedStore == [pairs |-> [p \in {"A/B"} |-> SeedSeries], lastCleanup |-> 0]
SeedNow == (SeedLen - 1) * MIN_INTERVAL_MS

InitHistory ==
  /\ \/ /\ store = NoData
        /\ now = 0
        /\ appended = [p \in PairNames |-> <<>>]
     \/ /\ store = SeedStore
        /\ now = SeedNow
        /\ appended = [p \in PairNames |-> PointsOf(SeedStore, p)]
  /\ ticks = 0
  /\ calls = 0
  /\ lastCall = NoCall
  /\ statsOut = NoStats

\* the wall clock advances
Tick(d) ==
  /\ ticks < MaxTicks
  /\ now' = now + d
  /\ ticks' = ticks + 1
  /\ lastCall' = NoCall
  /\ statsOut' = NoStats
  /\ UNCHANGED <<store, calls, appended>>
  /\ UNCHANGED notHistory

\* recordPrice(pair, price)
RecordPrice(pair, price) ==
  /\ calls < MaxCalls
  /\ calls' = calls + 1
  /\ store' = recordPrice(store, pair, price, now)
  /\ appended' = IF Pushes(store, pair, price, now)
                 THEN [appended EXCEPT ![pair] = Append(@, [timestamp |-> now, price |-> price])]
                 ELSE appended
  /\ lastCall' = [op |-> "recordPrice", pair |-> pair, price |-> price]
  /\ statsOut' = NoStats
  /\ UNCHANGED <<now, ticks>>
  /\ UNCHANGED notHistory

\* getPriceStats(pair)
GetPriceStats(pair) ==
  /\ statsOut' = getPriceStats(store, pair, now)
  /\ lastCall' = [op |-> "getPriceStats", pair |-> pair]
  /\ UNCHANGED <<store, now, ticks, calls, appended>>
  /\ UNCHANGED notHistory

NextHistory ==
  \/ \E d \in Deltas : Tick(d)
  \/ \E pair \in PairNames, price \in PriceVals : RecordPrice(pair, price)
  \/ \E pair \in PairNames : GetPriceStats(pair)

\* ========================================================================
\* page.tsx: the swap form
\* ========================================================================
NoQuote == [quote |-> "null"]
NoPool == [pool |-> "null"]
NoRun == [run |-> "none"]
NoSwap == [swap |-> "none"]

\* the slippage buttons, lines 1011 and 1180
SlippageChoices == {10, 50, 100, 200}

\* what getAllPools returns: the pools of the chain in ascending id
PoolsOnChain ==
  << [id |-> 0, denomA |-> "a", denomB |-> "b", reserveA |-> 5, reserveB |-> 5],
     [id |-> 1, denomA |-> "b", denomB |-> "a", reserveA |-> 5, reserveB |-> 5],
     [id |-> 2, denomA |-> "a", denomB |-> "b", reserveA |-> 0, reserveB |-> 5] >>

\* what getAllCLMMPools returns
ClmmPoolsOnChain ==
  << [id |-> 0, denomA |-> "a", denomB |-> "c", liquidity |-> 4000000],
     [id |-> 1, denomA |-> "b", denomB |-> "a", liquidity |-> 4000000],
     [id |-> 2, denomA |-> "a", denomB |-> "b", liquidity |-> 0],
     [id |-> 3, denomA |-> "a", denomB |-> "b", liquidity |-> 4000000] >>

\* the options of the token selectors: "Select token" and availableTokens()
TokenChoices ==
  {""} \cup {pools[i].denomA : i \in 1..Len(pools)}
       \cup {pools[i].denomB : i \in 1..Len(pools)}
       \cup {clmmPools[i].denomA : i \in 1..Len(clmmPools)}
       \cup {clmmPools[i].denomB : i \in 1..Len(clmmPools)}

\* the tokens the user picks in the selectors
TokenInputs == {"a", "b"}

\* what the user types into the amount field: nothing, or one token
TypedAmounts == {<<>>, <<1000000>>}

\* the amounts a quote query returns
QuoteVals == {0, 1000000, 1999999}
\* how the awaited query settles: <<n>> is the returned amount n, <<>> a
\* rejected promise (getCLMMQuote catches and never rejects)
Threw == <<>>
ClmmAnswers == {<<n>> : n \in QuoteVals}
V2Answers == ClmmAnswers \cup {Threw}

\* outcomes of the wallet call of handleSwap
WalletOutcomes == {"ok", "rejected", "failed"}

\* BigInt(Math.floor(parseFloat(fromAmount) * 1_000_000))
AmountIn(text) == text[1]

\* fmtAmt(best.amountOut)
fmtAmt(amount) == <<amount>>

\* findPoolsForPair
findPoolsForPair(ps, tokenA, tokenB) ==
  IF tokenA = "" \/ tokenB = "" THEN <<>>
  ELSE SelectSeq(ps, LAMBDA p :
         \/ p.denomA = tokenA /\ p.denomB = tokenB
         \/ p.denomA = tokenB /\ p.denomB = tokenA)

\* updateQuote, line 383: the V2 pool is skipped
SkipsV2(pool) == pool.reserveA = 0 \/ pool.reserveB = 0

\* updateQuote, line 384
\* TokenInV2Swapped is the variant that compares the wrong side.
TokenInV2Swapped(pool, from) == IF pool.denomB = from THEN "A" ELSE "B"
TokenInV2(pool, from) == IF pool.denomA = from THEN "A" ELSE "B"

\* updateQuote, lines 397-400: the CLMM pool is skipped
SkipsClmm(pool, from, to) ==
  LET isAtoB == pool.denomA = from /\ pool.denomB = to
      isBtoA == pool.denomB = from /\ pool.denomA = to
  IN (~isAtoB /\ ~isBtoA) \/ pool.liquidity = 0

\* updateQuote, line 402
TokenInClmm(pool, from, to) ==
  IF pool.denomA = from /\ pool.denomB = to THEN "A" ELSE "B"

\* updateQuote, line 407
\* maxOutputHalf is the variant that divides by 2.
maxOutputHalf(pool) == pool.liquidity \div 2
maxOutput(pool) == pool.liquidity \div 4

\* updateQuote, lines 387 and 408: quote > 0n
\* IsPositiveOrZero is the variant that lets a zero quote through.
IsPositiveOrZero(quote) == quote >= 0
IsPositive(quote) == quote > 0

\* updateQuote, lines 387 and 408: !best || quote > best.amountOut
\* BeatsOrTies is the variant with >=, BeatsAlways the one without the test.
BeatsAlways(quote, best) == TRUE
BeatsOrTies(quote, best) == best = NoQuote \/ quote >= best.amountOut
Beats(quote, best) == best = NoQuote \/ quote > best.amountOut

\* the quote queries updateQuote makes, in the order it makes them:
\* the V2 loop, then the CLMM loop
QueriesOf(ps, cps, from, to) ==
  LET v2 == SelectSeq(findPoolsForPair(ps, from, to), LAMBDA p : ~SkipsV2(p))
      cl == SelectSeq(cps, LAMBDA p : ~SkipsClmm(p, from, to))
  IN [i \in 1..Len(v2) |->
        [poolType |-> "v2", pool |-> v2[i], tokenIn |-> TokenInV2(v2[i], from)]]
     \o
     [i \in 1..Len(cl) |->
        [poolType |-> "clmm", pool |-> cl[i], tokenIn |-> TokenInClmm(cl[i], from, to)]]

\* updateQuote, lines 386-392 and 404-413: `best` after the answer to query q.
\* BestAfterAbort is the variant in which a rejected query drops what was
\* found so far.
BestAfterAbort(best, q, answer) ==
  IF answer = Threw THEN NoQuote
  ELSE LET quote == answer[1] IN
       IF q.poolType = "v2"
       THEN IF IsPositive(quote) /\ Beats(quote, best)
            THEN [pool |-> q.pool, clmmPool |-> NoPool, poolType |-> "v2",
                  amountOut |-> quote, tokenIn |-> q.tokenIn]
            ELSE best
       ELSE IF IsPositive(quote) /\ quote <= maxOutput(q.pool) /\ Beats(quote, best)
            THEN [pool |-> NoPool, clmmPool |-> q.pool, poolType |-> "clmm",
                  amountOut |-> quote, tokenIn |-> q.tokenIn]
            ELSE best
BestAfter(best, q, answer) ==
  IF answer = Threw THEN best
  ELSE LET quote == answer[1] IN
       IF q.poolType = "v2"
       THEN IF IsPositive(quote) /\ Beats(quote, best)
            THEN [pool |-> q.pool, clmmPool |-> NoPool, poolType |-> "v2",
                  amountOut |-> quote, tokenIn |-> q.tokenIn]
            ELSE best
       ELSE IF IsPositive(quote) /\ quote <= maxOutput(q.pool) /\ Beats(quote, best)
            THEN [pool |-> NoPool, clmmPool |-> q.pool, poolType |-> "clmm",
                  amountOut |-> quote, tokenIn |-> q.tokenIn]
            ELSE best

\* handleSwap, line 451: (bestQuote.amountOut * BigInt(10000 - slippageBps)) / 10000n.
\* The product is split at 10000 to stay within 32 bits:
\* (q * 10000 + r) * k / 10000 = q * k + r * k / 10000.
\* MinOutCutFirst is the variant that rounds the deduction instead.
MinOutCutFirst(amountOut, bps) == amountOut - (amountOut * bps) \div 10000
MinOut(amountOut, bps) ==
  LET k == 10000 - bps
  IN (amountOut \div 10000) * k + ((amountOut % 10000) * k) \div 10000

\* handleSwap, lines 461 and 470
DenomIn(quote) ==
  LET p == IF quote.poolType = "v2" THEN quote.pool ELSE quote.clmmPool
  IN IF quote.tokenIn = "A" THEN p.denomA ELSE p.denomB

\* the useEffect of line 432 re-arms the timer when a dependency of
\* updateQuote has changed
Rearm(changed) == IF changed THEN TRUE ELSE timerArmed

InitSwap ==
  /\ pools = <<>>
  /\ clmmPools = <<>>
  /\ fromToken = ""
  /\ toToken = ""
  /\ fromAmount = <<>>
  /\ toAmount = <<>>
  /\ bestQuote = NoQuote
  /\ quoteAmountIn = 0
  /\ slippageBps = 50
  /\ walletAddress = ""
  /\ quoteLoading = FALSE
  /\ swapLoading = FALSE
  /\ timerArmed = TRUE
  /\ runs = <<>>
  /\ done = NoRun
  /\ swapCall = NoSwap

\* fetchPools, lines 283-296
FetchPools ==
  /\ pools' = PoolsOnChain
  /\ IF Len(PoolsOnChain) > 0 /\ fromToken = "" /\ toToken = ""
     THEN /\ fromToken' = PoolsOnChain[1].denomB
          /\ toToken' = PoolsOnChain[1].denomA
     ELSE UNCHANGED <<fromToken, toToken>>
  /\ timerArmed' = TRUE
  /\ done' = NoRun
  /\ swapCall' = NoSwap
  /\ UNCHANGED <<clmmPools, fromAmount, toAmount, bestQuote, quoteAmountIn, slippageBps,
                 walletAddress, quoteLoading, swapLoading, runs>>
  /\ UNCHANGED notSwap

\* fetchClmmPools, lines 303-309
FetchClmmPools ==
  /\ clmmPools' = ClmmPoolsOnChain
  /\ timerArmed' = TRUE
  /\ done' = NoRun
  /\ swapCall' = NoSwap
  /\ UNCHANGED <<pools, fromToken, toToken, fromAmount, toAmount, bestQuote, quoteAmountIn,
                 slippageBps, walletAddress, quoteLoading, swapLoading, runs>>
  /\ UNCHANGED notSwap

\* connectWallet, lines 529-548
ConnectWallet ==
  /\ walletAddress = ""
  /\ walletAddress' = "g1user"
  /\ done' = NoRun
  /\ swapCall' = NoSwap
  /\ UNCHANGED <<pools, clmmPools, fromToken, toToken, fromAmount, toAmount,
                 bestQuote, quoteAmountIn, slippageBps, quoteLoading, swapLoading, timerArmed,
                 runs>>
  /\ UNCHANGED notSwap

\* the source selector, line 1020
SelectFromToken(token) ==
  /\ token \in TokenChoices
  /\ fromToken' = token
  /\ fromAmount' = <<>>
  /\ toAmount' = <<>>
  /\ bestQuote' = NoQuote
  /\ quoteAmountIn' = 0
  /\ timerArmed' = Rearm(token # fromToken \/ fromAmount # <<>>)
  /\ done' = NoRun
  /\ swapCall' = NoSwap
  /\ UNCHANGED <<pools, clmmPools, toToken, slippageBps, walletAddress,
                 quoteLoading, swapLoading, runs>>
  /\ UNCHANGED notSwap

\* the destination selector, line 1061
SelectToToken(token) ==
  /\ token \in TokenChoices
  /\ toToken' = token
  /\ toAmount' = <<>>
  /\ bestQuote' = NoQuote
  /\ quoteAmountIn' = 0
  /\ timerArmed' = Rearm(token # toToken)
  /\ done' = NoRun
  /\ swapCall' = NoSwap
  /\ UNCHANGED <<pools, clmmPools, fromToken, fromAmount, slippageBps,
                 walletAddress, quoteLoading, swapLoading, runs>>
  /\ UNCHANGED notSwap

\* the amount field, line 1037
SetFromAmount(text) ==
  /\ fromAmount' = text
  /\ timerArmed' = Rearm(text # fromAmount)
  /\ done' = NoRun
  /\ swapCall' = NoSwap
  /\ UNCHANGED <<pools, clmmPools, fromToken, toToken, toAmount, bestQuote, quoteAmountIn,
                 slippageBps, walletAddress, quoteLoading, swapLoading, runs>>
  /\ UNCHANGED notSwap

\* the slippage buttons
SetSlippage(bps) ==
  /\ slippageBps' = bps
  /\ done' = NoRun
  /\ swapCall' = NoSwap
  /\ UNCHANGED <<pools, clmmPools, fromToken, toToken, fromAmount, toAmount,
                 bestQuote, quoteAmountIn, walletAddress, quoteLoading, swapLoading, timerArmed,
                 runs>>
  /\ UNCHANGED notSwap

\* handleSwapDirection, lines 437-443
HandleSwapDirection ==
  /\ fromToken' = toToken
  /\ toToken' = fromToken
  /\ fromAmount' = toAmount
  /\ toAmount' = <<>>
  /\ bestQuote' = NoQuote
  /\ quoteAmountIn' = 0
  /\ timerArmed' = Rearm(fromToken # toToken \/ fromAmount # toAmount)
  /\ done' = NoRun
  /\ swapCall' = NoSwap
  /\ UNCHANGED <<pools, clmmPools, slippageBps, walletAddress, quoteLoading,
                 swapLoading, runs>>
  /\ UNCHANGED notSwap

\* updateQuote, lines 416-428: the invocation r sets the result and returns
Completed(r) ==
  [from |-> r.from, to |-> r.to, pools |-> r.pools, clmmPools |-> r.clmmPools,
   queries |-> r.queries, answers |-> r.answers]

\* the debounce timer fires: updateQuote runs up to its first await
StartUpdateQuote ==
  /\ timerArmed
  /\ timerArmed' = FALSE
  /\ swapCall' = NoSwap
  /\ IF fromToken = "" \/ toToken = "" \/ fromAmount = <<>> \/ AmountIn(fromAmount) <= 0
     THEN \* lines 369-373
          /\ toAmount' = <<>>
          /\ bestQuote' = NoQuote
          /\ quoteAmountIn' = 0
          /\ done' = NoRun
          /\ UNCHANGED <<quoteLoading, runs>>
     ELSE /\ Len(runs) < MaxRuns
          /\ LET r == [from |-> fromToken, to |-> toToken,
                       amountIn |-> AmountIn(fromAmount),
                       pools |-> pools, clmmPools |-> clmmPools,
                       queries |-> QueriesOf(pools, clmmPools, fromToken, toToken),
                       answers |-> <<>>, best |-> NoQuote]
             IN IF r.queries = <<>>
                THEN \* no pool to ask: lines 419-421 and 428
                     /\ toAmount' = <<>>
                     /\ bestQuote' = NoQuote
                     /\ quoteAmountIn' = 0
                     /\ quoteLoading' = FALSE
                     /\ done' = Completed(r)
                     /\ UNCHANGED runs
                ELSE /\ runs' = Append(runs, r)
                     /\ quoteLoading' = TRUE
                     /\ done' = NoRun
                     /\ UNCHANGED <<toAmount, bestQuote, quoteAmountIn>>
  /\ UNCHANGED <<pools, clmmPools, fromToken, toToken, fromAmount, slippageBps,
                 walletAddress, swapLoading>>
  /\ UNCHANGED notSwap

\* the quote an invocation waits for returns (getQuote / getCLMMQuote); the
\* invocation goes on to its next await or to its end
QuoteReturns(i, answer) ==
  /\ i \in 1..Len(runs)
  /\ LET r == runs[i]
         q == r.queries[Len(r.answers) + 1]
         r2 == [r EXCEPT !.answers = Append(@, answer),
                         !.best = BestAfter(r.best, q, answer)]
     IN /\ answer \in (IF q.poolType = "v2" THEN V2Answers ELSE ClmmAnswers)
        /\ IF Len(r2.answers) < Len(r2.queries)
           THEN /\ runs' = [runs EXCEPT ![i] = r2]
                /\ done' = NoRun
                /\ UNCHANGED <<bestQuote, quoteAmountIn, toAmount, quoteLoading>>
           ELSE /\ runs' = SubSeq(runs, 1, i - 1) \o SubSeq(runs, i + 1, Len(runs))
                /\ bestQuote' = r2.best
                /\ quoteAmountIn' = IF r2.best # NoQuote THEN r.amountIn ELSE 0
                /\ toAmount' = IF r2.best # NoQuote THEN fmtAmt(r2.best.amountOut) ELSE <<>>
                /\ quoteLoading' = FALSE
                /\ done' = Completed(r2)
  /\ swapCall' = NoSwap
  /\ UNCHANGED <<pools, clmmPools, fromToken, toToken, fromAmount, slippageBps,
                 walletAddress, swapLoading, timerArmed>>
  /\ UNCHANGED notSwap

\* handleSwap, lines 445-474: up to the wallet call
HandleSwap ==
  /\ ~swapLoading                       \* the button is disabled meanwhile
  /\ walletAddress # ""
  /\ bestQuote # NoQuote
  /\ fromAmount # <<>>
  /\ swapLoading' = TRUE
  /\ swapCall' = [fn |-> IF bestQuote.poolType = "v2" THEN "swap" ELSE "swapCLMM",
                  poolId |-> IF bestQuote.poolType = "v2" THEN bestQuote.pool.id
                             ELSE bestQuote.clmmPool.id,
                  tokenIn |-> bestQuote.tokenIn,
                  amountIn |-> AmountIn(fromAmount),
                  minAmountOut |-> MinOut(bestQuote.amountOut, slippageBps),
                  denomIn |-> DenomIn(bestQuote),
                  quote |-> bestQuote]
  /\ done' = NoRun
  /\ UNCHANGED <<pools, clmmPools, fromToken, toToken, fromAmount, toAmount,
                 bestQuote, quoteAmountIn, slippageBps, walletAddress, quoteLoading, timerArmed,
                 runs>>
  /\ UNCHANGED notSwap

\* handleSwap, lines 476-499: the wallet call has settled
SwapSettles(outcome) ==
  /\ swapLoading
  /\ swapLoading' = FALSE
  /\ IF outcome = "ok"
     THEN /\ fromAmount' = <<>>
          /\ toAmount' = <<>>
          /\ bestQuote' = NoQuote
          /\ quoteAmountIn' = 0
          /\ timerArmed' = Rearm(fromAmount # <<>>)
     ELSE UNCHANGED <<fromAmount, toAmount, bestQuote, quoteAmountIn, timerArmed>>
  /\ done' = NoRun
  /\ swapCall' = NoSwap
  /\ UNCHANGED <<pools, clmmPools, fromToken, toToken, slippageBps, walletAddress,
                 quoteLoading, runs>>
  /\ UNCHANGED notSwap

\* the quote side of the form: pool refresh, token and amount entry, the
\* debounced updateQuote
NextRoute ==
  \/ FetchPools
  \/ FetchClmmPools
  \/ \E token \in TokenInputs : SelectFromToken(token)
  \/ \E token \in TokenInputs : SelectToToken(token)
  \/ \E text \in TypedAmounts : SetFromAmount(text)
  \/ HandleSwapDirection
  \/ StartUpdateQuote
  \/ \E i \in 1..MaxRuns, answer \in V2Answers : QuoteReturns(i, answer)

\* the whole swap form
NextSwap ==
  \/ NextRoute
  \/ ConnectWallet
  \/ \E bps \in SlippageChoices : SetSlippage(bps)
  \/ HandleSwap
  \/ \E outcome \in WalletOutcomes : SwapSettles(outcome)

\* ========================================================================
\* priceHistory.ts called from several tabs of one browser.  localStorage
\* is shared by the tabs of an origin; recordPrice reads the item
\* (getStorageData, line 74) and writes it back (setStorageData, line 110)
\* in two separate storage accesses, and nothing keeps another tab from
\* accessing the item in between.
\* ========================================================================
NumTabs == 2
TabIds == 1..NumTabs

IdleTab == [pc |-> "idle"]

\* recordPrice, lines 72-75: the guard, getStorageData() and Date.now()
TabReads(tab, pair, price) ==
  /\ tabs[tab] = IdleTab
  /\ calls < MaxCalls
  /\ price > 0
  /\ calls' = calls + 1
  /\ tabs' = [tabs EXCEPT ![tab] =
                [pc |-> "read", pair |-> pair, price |-> price, item |-> store, t |-> now]]
  /\ lastCall' = NoCall
  /\ statsOut' = NoStats
  /\ UNCHANGED <<store, now, ticks, appended>>
  /\ UNCHANGED <<svars, pvars, mvars, qvars, evars>>

\* recordPrice, lines 77-110, on what the tab read: sweep, deduplicate,
\* push, trim and setStorageData (or return without writing)
TabWrites(tab) ==
  /\ tabs[tab].pc = "read"
  /\ LET c == tabs[tab]
     IN /\ store' = IF Pushes(c.item, c.pair, c.price, c.t)
                    THEN recordPrice(c.item, c.pair, c.price, c.t)
                    ELSE store
        /\ appended' = IF Pushes(c.item, c.pair, c.price, c.t)
                       THEN [appended EXCEPT ![c.pair] =
                               Append(@, [timestamp |-> c.t, price |-> c.price])]
                       ELSE appended
        /\ lastCall' = [op |-> "recordPrice", pair |-> c.pair, price |-> c.price]
  /\ tabs' = [tabs EXCEPT ![tab] = IdleTab]
  /\ statsOut' = NoStats
  /\ UNCHANGED <<now, ticks, calls>>
  /\ UNCHANGED <<svars, pvars, mvars, qvars, evars>>

NextTabs ==
  \/ \E tab \in TabIds, pair \in PairNames, price \in PriceVals : TabReads(tab, pair, price)
  \/ \E tab \in TabIds : TabWrites(tab)
  \/ Tick(MIN_INTERVAL_MS)

TabsIdle == tabs = [tab \in TabIds |-> IdleTab]

\* ========================================================================
\* priceHistory.ts on whatever the item holds.  getStorageData returns what
\* JSON.parse returns without looking at its shape; reading a property of
\* null or of undefined raises a TypeError in the caller.
\* ========================================================================
PersistedValues == {NoData, Unparseable, JsonNull, NoPairsMap}

\* data.pairs can be indexed (lines 85, 116, 122) and, for recordPrice,
\* data.lastCleanup can be read (line 78)
ReadsPairs(data) == "pairs" \in DOMAIN data

\* the call raises
Throws(s, t) == ~ReadsPairs(getStorageData(s, t))

\* getAllPairsWithHistory: the pairs with a stored point
getAllPairsWithHistory(s, t) ==
  LET data == getStorageData(s, t)
  IN {p \in DOMAIN data.pairs : data.pairs[p] # <<>>}

\* recordPrice(pair, price)
RecordPriceOn(pair, price) ==
  /\ calls < MaxCalls
  /\ calls' = calls + 1
  /\ IF price > 0 /\ Throws(store, now)
     THEN /\ lastCall' = [op |-> "recordPrice", pair |-> pair, price |-> price,
                          threw |-> TRUE, returned |-> <<>>]
          /\ UNCHANGED <<store, appended>>
     ELSE /\ store' = recordPrice(store, pair, price, now)
          /\ appended' = IF Pushes(store, pair, price, now)
                         THEN [appended EXCEPT ![pair] =
                                 Append(@, [timestamp |-> now, price |-> price])]
                         ELSE appended
          /\ lastCall' = [op |-> "recordPrice", pair |-> pair, price |-> price,
                          threw |-> FALSE, returned |-> <<>>]
  /\ statsOut' = NoStats
  /\ UNCHANGED <<now, ticks>>
  /\ UNCHANGED notHistory

\* getPriceHistory(pair)
GetPriceHistoryOn(pair) ==
  /\ lastCall' = IF Throws(store, now)
                 THEN [op |-> "getPriceHistory", pair |-> pair, threw |-> TRUE,
                       returned |-> <<>>]
                 ELSE [op |-> "getPriceHistory", pair |-> pair, threw |-> FALSE,
                       returned |-> getPriceHistory(store, pair, now)]
  /\ statsOut' = NoStats
  /\ UNCHANGED <<store, now, ticks, calls, appended>>
  /\ UNCHANGED notHistory

\* getAllPairsWithHistory()
GetAllPairsWithHistoryOn ==
  /\ lastCall' = IF Throws(store, now)
                 THEN [op |-> "getAllPairsWithHistory", pair |-> "", threw |-> TRUE,
                       returned |-> <<>>]
                 ELSE [op |-> "getAllPairsWithHistory", pair |-> "", threw |-> FALSE,
                       returned |-> getAllPairsWithHistory(store, now)]
  /\ statsOut' = NoStats
  /\ UNCHANGED <<store, now, ticks, calls, appended>>
  /\ UNCHANGED notHistory

\* getPriceStats(pair)
GetPriceStatsOn(pair) ==
  /\ IF Throws(store, now)
     THEN /\ lastCall' = [op |-> "getPriceStats", pair |-> pair, threw |-> TRUE,
                          returned |-> <<>>]
          /\ statsOut' = NoStats
     ELSE /\ lastCall' = [op |-> "getPriceStats", pair |-> pair, threw |-> FALSE,
                          returned |-> <<>>]
          /\ statsOut' = getPriceStats(store, pair, now)
  /\ UNCHANGED <<store, now, ticks, calls, appended>>
  /\ UNCHANGED notHistory

NextStorage ==
  \/ \E d \in Deltas : Tick(d)
  \/ \E pair \in PairNames, price \in PriceVals : RecordPriceOn(pair, price)
  \/ \E pair \in PairNames : GetPriceHistoryOn(pair)
  \/ GetAllPairsWithHistoryOn
  \/ \E pair \in PairNames : GetPriceStatsOn(pair)

\* the page loads over any persisted value
InitStorage ==
  /\ store \in PersistedValues
  /\ now = 0
  /\ appended = [p \in PairNames |-> <<>>]
  /\ ticks = 0
  /\ calls = 0
  /\ lastCall = NoCall
  /\ statsOut = NoStats

\* ========================================================================
\* Exact arithmetic.  The source computes with JavaScript numbers; the model
\* computes with fractions <<numerator, denominator>> in lowest terms, the
\* denominator positive, so that comparisons and equalities are those of the
\* real numbers the code approximates.
\* ========================================================================
RECURSIVE Gcd(_, _)
Gcd(a, b) == IF b = 0 THEN a ELSE Gcd(b, a % b)

RECURSIVE Pow(_, _)
Pow(b, n) == IF n = 0 THEN 1 ELSE b * Pow(b, n - 1)

Frac(n, d) == LET g == Gcd(Abs(n), d) IN <<n \div g, d \div g>>

FracOfInt(n) == <<n, 1>>

FracSub(x, y) ==
  LET g == Gcd(x[2], y[2])
  IN Frac(x[1] * (y[2] \div g) - y[1] * (x[2] \div g), (x[2] \div g) * y[2])

FracMul(x, y) ==
  LET g1 == Gcd(Abs(x[1]), y[2])
      g2 == Gcd(Abs(y[1]), x[2])
  IN <<(x[1] \div g1) * (y[1] \div g2), (x[2] \div g2) * (y[2] \div g1)>>

\* x / y for y > 0
FracDiv(x, y) == FracMul(x, <<y[2], y[1]>>)

FracSign(x) == IF x[1] > 0 THEN 1 ELSE IF x[1] < 0 THEN -1 ELSE 0

FracLess(x, y) == FracSign(FracSub(x, y)) < 0

FracLeq(x, y) == FracSign(FracSub(x, y)) <= 0

\* ========================================================================
\* clmm.ts: ticks and prices
\* ========================================================================
\* tickToPrice(tick) with the default basePrice = 1: 1.01 ^ tick
tickToPrice(tick) ==
  IF tick >= 0 THEN <<Pow(101, tick), Pow(100, tick)>>
  ELSE <<Pow(100, -tick), Pow(101, -tick)>>

\* Number(priceX6) / 1_000_000
PriceOfX6(priceX6) == Frac(priceX6, 1000000)

\* ========================================================================
\* page.tsx, positions tab: one card per position of the connected wallet
\* ========================================================================
\* what the chain reports for pool 0: its current tick and price
PoolSnapshots ==
  {[currentTick |-> -2, priceX6 |-> 980300, tickSpacing |-> 1],
   [currentTick |-> -1, priceX6 |-> 990100, tickSpacing |-> 1],
   [currentTick |-> 0, priceX6 |-> 1000000, tickSpacing |-> 1],
   [currentTick |-> 1, priceX6 |-> 1010000, tickSpacing |-> 1],
   [currentTick |-> 2, priceX6 |-> 1020100, tickSpacing |-> 1],
   [currentTick |-> 3, priceX6 |-> 1030400, tickSpacing |-> 1]}

ClmmPool(id, snap) ==
  [id |-> id, denomA |-> "a", denomB |-> "b", priceX6 |-> snap.priceX6,
   currentTick |-> snap.currentTick, liquidity |-> 4000000, feeBPS |-> 30,
   tickSpacing |-> snap.tickSpacing]

\* getAllCLMMPools: pool 0, and pool 1 once it has been created
ClmmPoolLists ==
  {<<ClmmPool(0, s)>> : s \in PoolSnapshots}
    \cup {<<ClmmPool(0, s),
             ClmmPool(1, [currentTick |-> 0, priceX6 |-> 1000000, tickSpacing |-> 1])>> :
            s \in PoolSnapshots}

\* the positions the chain can hold for the wallet
TickChoices == -2..2
LiquidityChoices == {1, 3}
PositionChoices ==
  {[poolId |-> q, tickLower |-> lo, tickUpper |-> up, liquidity |-> l] :
     q \in {0, 1, 2}, lo \in TickChoices, up \in TickChoices, l \in LiquidityChoices}

OwnedPositions == {p \in PositionChoices : p.tickLower < p.tickUpper}

\* the pool is not among the fetched ones: the card renders as nothing
NoCard == [card |-> "null"]

\* line 1532.  inRangeClosed is the variant that takes the upper tick in.
inRangeClosed(pool, pos) ==
  pool.currentTick >= pos.tickLower /\ pool.currentTick <= pos.tickUpper
inRange(pool, pos) ==
  pool.currentTick >= pos.tickLower /\ pool.currentTick < pos.tickUpper

\* lines 1538-1549, let amountA.  AmountAOfSwapped is the variant with the
\* two outer branches exchanged.
AmountAOfSwapped(liq, pL, pU, pC) ==
  IF FracLeq(pC, pL) THEN <<0, 1>>
  ELSE IF FracLeq(pU, pC)
       THEN FracDiv(FracMul(FracOfInt(liq), FracSub(pU, pL)), FracMul(pL, pU))
       ELSE FracDiv(FracMul(FracOfInt(liq), FracSub(pU, pC)), FracMul(pC, pU))
AmountAOf(liq, pL, pU, pC) ==
  IF FracLeq(pC, pL)
  THEN FracDiv(FracMul(FracOfInt(liq), FracSub(pU, pL)), FracMul(pL, pU))
  ELSE IF FracLeq(pU, pC) THEN <<0, 1>>
       ELSE FracDiv(FracMul(FracOfInt(liq), FracSub(pU, pC)), FracMul(pC, pU))

\* lines 1538-1549, let amountB
AmountBOf(liq, pL, pU, pC) ==
  IF FracLeq(pC, pL) THEN <<0, 1>>
  ELSE IF FracLeq(pU, pC) THEN FracMul(FracOfInt(liq), FracSub(pU, pL))
       ELSE FracMul(FracOfInt(liq), FracSub(pC, pL))

\* lines 1529-1549: what the card of one position is computed from
Card(pos, ps) ==
  LET found == {i \in 1..Len(ps) : ps[i].id = pos.poolId}
  IN IF found = {} THEN NoCard
     ELSE LET pool == ps[CHOOSE i \in found : \A j \in found : i <= j]
              pL == tickToPrice(pos.tickLower)
              pU == tickToPrice(pos.tickUpper)
              pC == PriceOfX6(pool.priceX6)
          IN [inRange |-> inRange(pool, pos),
              pL |-> pL, pU |-> pU, pC |-> pC,
              amountA |-> AmountAOf(pos.liquidity, pL, pU, pC),
              amountB |-> AmountBOf(pos.liquidity, pL, pU, pC)]

\* lines 1520-1529: the tab lists the positions of a connected wallet
RenderPositions(wallet, positions, ps) ==
  IF wallet = "" THEN <<>>
  ELSE [i \in 1..Len(positions) |-> Card(positions[i], ps)]

\* fetchClmmPools, lines 303-309, when the chain reports `list`
FetchClmmPoolsAt(list) ==
  /\ clmmPools' = list
  /\ cards' = RenderPositions(walletAddress, clmmPositions, list)
  /\ timerArmed' = TRUE
  /\ done' = NoRun
  /\ swapCall' = NoSwap
  /\ UNCHANGED <<pools, fromToken, toToken, fromAmount, toAmount, bestQuote, quoteAmountIn,
                 slippageBps, walletAddress, quoteLoading, swapLoading, runs>>
  /\ UNCHANGED <<clmmPositions, hvars, tvars, mvars, qvars, evars>>

\* fetchClmmPositions, lines 317-345, when the chain reports `list`
FetchClmmPositions(list) ==
  /\ clmmPositions' = IF walletAddress = "" THEN <<>> ELSE list
  /\ cards' = RenderPositions(walletAddress, clmmPositions', clmmPools)
  /\ UNCHANGED <<svars, hvars, tvars, mvars, qvars, evars>>

PositionLists ==
  {<<>>} \cup {<<p>> : p \in OwnedPositions}

NextPositions ==
  \/ ConnectWallet
  \/ \E list \in ClmmPoolLists : FetchClmmPoolsAt(list)
  \/ \E list \in PositionLists : FetchClmmPositions(list)

PositionsIdle == clmmPositions = <<>> /\ cards = <<>>

\* ========================================================================
\* page.tsx, mint form (New Position)
\*
\* A price text is <<>> for '' and <<n>> for the decimal text of n / 10000;
\* an amount text is one of the records below.  The amount the form derives
\* for the other token is the real number calcAmountB / calcAmountA define
\* (square roots included); the model keeps it as the term it is computed
\* from instead of a rounded value.
\* ========================================================================
NoPoolSelected == [pool |-> "null"]
NoMint == [ev |-> "none"]

EmptyText == [text |-> ""]
TypedText(n) == [text |-> "typed", value |-> n]
Fixed6Text(term) == [text |-> "toFixed(6)", of |-> term]

ZeroAmount == [calc |-> "0"]
SameAmount(amt) == [calc |-> "amt", amt |-> amt]

\* the pools of the mint scenario: tick spacing 2 and tick spacing 3
MintPoolList ==
  <<ClmmPool(0, [currentTick |-> 0, priceX6 |-> 1000000, tickSpacing |-> 2]),
    ClmmPool(1, [currentTick |-> 0, priceX6 |-> 1000000, tickSpacing |-> 3])>>

\* what the user types into a price field: '0', '0.5', '3'
TypedPrices == {<<0>>, <<5000>>, <<30000>>}

\* what the user types into an amount field: '', '1'
TypedAmountTexts == {EmptyText, TypedText(1)}

\* parseFloat(text) > 0
IsPositivePrice(text) == text # <<>> /\ text[1] > 0

\* parseFloat(text) || 0, in units of 1 / 10000
PriceOrZero(text) == IF text = <<>> THEN 0 ELSE text[1]

\* the price a positive price text stands for
PriceOfText(text) == Frac(text[1], 10000)

\* <<(a * b) \div c, (a * b) % c>> for a, b >= 0 and c > 0, one decimal
\* digit of b at a time so that no intermediate value exceeds 32 bits
RECURSIVE MulDivMod(_, _, _)
MulDivMod(a, b, c) ==
  IF b = 0 THEN <<0, 0>>
  ELSE LET h == MulDivMod(a, b \div 10, c)
           rest == 10 * h[2] + a * (b % 10)
       IN <<10 * h[1] + rest \div c, rest % c>>

\* Math.log(0) and Math.log of a negative number, carried through
\* Math.round: the number priceToTick returns for a price that is not positive
MinusInfinity == [number |-> "-Infinity"]
NotANumber == [number |-> "NaN"]

\* Math.round(Math.log(x) / Math.log(1.01)) of a price x > 0 held in units
\* of 1 / 1000000: the number of steps of 1% that bring x between
\* 1 / sqrt(1.01) = 0.995037... and sqrt(1.01) = 1.004987..., ten steps at
\* a time (1.01 ^ 10 = 1.104622...) while x is far from 1
RECURSIVE TicksOfX6(_)
TicksOfX6(x) ==
  IF x >= 1110000 THEN TicksOfX6(MulDivMod(1000000, x, 1104622)[1]) + 10
  ELSE IF x <= 900000 THEN TicksOfX6(MulDivMod(1104622, x, 1000000)[1]) - 10
  ELSE IF x >= 1004988 THEN TicksOfX6(MulDivMod(100, x, 101)[1]) + 1
  ELSE IF x < 995038 THEN TicksOfX6(MulDivMod(101, x, 100)[1]) - 1
  ELSE 0

\* the same with Math.floor in the place of Math.round: the steps of 1% that
\* bring x between 1 and 1.01
RECURSIVE FloorTicksOfX6(_)
FloorTicksOfX6(x) ==
  IF x >= 1110000 THEN FloorTicksOfX6(MulDivMod(1000000, x, 1104622)[1]) + 10
  ELSE IF x <= 900000 THEN FloorTicksOfX6(MulDivMod(1104622, x, 1000000)[1]) - 10
  ELSE IF x >= 1010000 THEN FloorTicksOfX6(MulDivMod(100, x, 101)[1]) + 1
  ELSE IF x < 1000000 THEN FloorTicksOfX6(MulDivMod(101, x, 100)[1]) - 1
  ELSE 0

\* priceToTick(p) with the default basePrice = 1, lines 292-294.
\* priceToTickFloor is the variant that rounds down.
priceToTickFloor(p) ==
  IF p[1] > 0 THEN FloorTicksOfX6(MulDivMod(p[1], 1000000, p[2])[1])
  ELSE IF p[1] = 0 THEN MinusInfinity ELSE NotANumber
priceToTick(p) ==
  IF p[1] > 0 THEN TicksOfX6(MulDivMod(p[1], 1000000, p[2])[1])
  ELSE IF p[1] = 0 THEN MinusInfinity ELSE NotANumber

\* Math.round(n / d) for d > 0: halves go up
RoundDiv(n, d) == (2 * n + d) \div (2 * d)

\* Math.round(tick / spacing) * spacing
AlignToSpacing(tick, spacing) == RoundDiv(tick, spacing) * spacing

\* x.toFixed(4) of a fraction x >= 0, as a price text
ToFixed4(x) ==
  LET qr == MulDivMod(x[1], 10000, x[2])
  IN <<qr[1] + (IF 2 * qr[2] >= x[2] THEN 1 ELSE 0)>>

\* an <input type="range" min step max> offers min, min + step, ... up to
\* max.  The model moves a slider only to ticks within SliderReach of 0.
SliderReach == 2
LowerSliderTicks(spacing) ==
  {t \in -SliderReach..0 : (t - (-1000)) % spacing = 0}
UpperSliderTicks(spacing) ==
  {t \in 0..SliderReach : (t - 0) % spacing = 0}

\* lines 1717-1727
NeedsA(priceX6, lowerText) == ~(priceX6 <= PriceOrZero(lowerText) * 100)
NeedsB(priceX6, lowerText, upperText) ==
  \/ priceX6 <= PriceOrZero(lowerText) * 100
  \/ ~(priceX6 >= PriceOrZero(upperText) * 100)

\* calcAmountB(amtA), lines 1731-1744; pL and pU in units of 1 / 10000,
\* the current price in units of 1 / 1000000
calcAmountB(amtA, priceX6, lowerText, upperText) ==
  LET pL == PriceOrZero(lowerText)
      pU == PriceOrZero(upperText)
  IN IF ~NeedsB(priceX6, lowerText, upperText) THEN ZeroAmount
     ELSE IF ~NeedsA(priceX6, lowerText) THEN SameAmount(amtA)
     ELSE IF pL <= 0 \/ pU <= pL \/ priceX6 <= 0 THEN ZeroAmount
     ELSE IF pU * 100 <= priceX6 THEN ZeroAmount     \* sqrtPU <= sqrtPC
     ELSE [calc |-> "amtA * sqrtPC * sqrtPU / (sqrtPU - sqrtPC) * (sqrtPC - sqrtPL)",
           amt |-> amtA, pL |-> pL, pU |-> pU, priceX6 |-> priceX6]

\* calcAmountA(amtB), lines 1746-1758
calcAmountA(amtB, priceX6, lowerText, upperText) ==
  LET pL == PriceOrZero(lowerText)
      pU == PriceOrZero(upperText)
  IN IF ~NeedsA(priceX6, lowerText) THEN ZeroAmount
     ELSE IF ~NeedsB(priceX6, lowerText, upperText) THEN SameAmount(amtB)
     ELSE IF pL <= 0 \/ pU <= pL \/ priceX6 <= 0 THEN ZeroAmount
     ELSE IF priceX6 <= pL * 100 THEN ZeroAmount     \* sqrtPC <= sqrtPL
     ELSE [calc |-> "amtB / (sqrtPC - sqrtPL) * (sqrtPU - sqrtPC) / (sqrtPC * sqrtPU)",
           amt |-> amtB, pL |-> pL, pU |-> pU, priceX6 |-> priceX6]

InitMint ==
  /\ selectedClmmPool = NoPoolSelected
  /\ mintTickLower = -10
  /\ mintTickUpper = 10
  /\ mintPriceLower = <<5000>>
  /\ mintPriceUpper = <<20000>>
  /\ mintAmountA = EmptyText
  /\ mintAmountB = EmptyText
  /\ clmmLoading = FALSE
  /\ mintCall = NoMint

\* the pool selector, line 1683, and the effect of lines 351-366
SelectClmmPool(i) ==
  /\ i \in 1..Len(clmmPools)
  /\ LET pool == clmmPools[i]
         lowerPrice == Frac(pool.priceX6, 2000000)       \* currentPrice * 0.5
         upperPrice == Frac(pool.priceX6 * 2, 1000000)   \* currentPrice * 2.0
         spacing == pool.tickSpacing
     IN /\ selectedClmmPool' = pool
        /\ mintPriceLower' = ToFixed4(lowerPrice)
        /\ mintPriceUpper' = ToFixed4(upperPrice)
        /\ mintTickLower' = AlignToSpacing(priceToTick(lowerPrice), spacing)
        /\ mintTickUpper' = AlignToSpacing(priceToTick(upperPrice), spacing)
  /\ mintCall' = NoMint
  /\ UNCHANGED <<mintAmountA, mintAmountB, clmmLoading>>
  /\ UNCHANGED <<hvars, svars, tvars, pvars, qvars, evars>>

\* the pool selector set back to "Select a pool"
DeselectClmmPool ==
  /\ selectedClmmPool # NoPoolSelected
  /\ selectedClmmPool' = NoPoolSelected
  /\ mintCall' = NoMint
  /\ UNCHANGED <<mintTickLower, mintTickUpper, mintPriceLower, mintPriceUpper,
                 mintAmountA, mintAmountB, clmmLoading>>
  /\ UNCHANGED <<hvars, svars, tvars, pvars, qvars, evars>>

\* Min Price text field, line 1692
SetMintPriceLower(text) ==
  /\ selectedClmmPool # NoPoolSelected
  /\ mintPriceLower' = text
  /\ mintTickLower' = IF IsPositivePrice(text)
                      THEN AlignToSpacing(priceToTick(PriceOfText(text)),
                                          selectedClmmPool.tickSpacing)
                      ELSE mintTickLower
  /\ mintCall' = NoMint
  /\ UNCHANGED <<selectedClmmPool, mintTickUpper, mintPriceUpper, mintAmountA,
                 mintAmountB, clmmLoading>>
  /\ UNCHANGED <<hvars, svars, tvars, pvars, qvars, evars>>

\* Max Price text field, line 1698
SetMintPriceUpper(text) ==
  /\ selectedClmmPool # NoPoolSelected
  /\ mintPriceUpper' = text
  /\ mintTickUpper' = IF IsPositivePrice(text)
                      THEN AlignToSpacing(priceToTick(PriceOfText(text)),
                                          selectedClmmPool.tickSpacing)
                      ELSE mintTickUpper
  /\ mintCall' = NoMint
  /\ UNCHANGED <<selectedClmmPool, mintTickLower, mintPriceLower, mintAmountA,
                 mintAmountB, clmmLoading>>
  /\ UNCHANGED <<hvars, svars, tvars, pvars, qvars, evars>>

\* Min Price slider, line 1693: min -1000, max 0, step tickSpacing
MoveLowerSlider(tick) ==
  /\ selectedClmmPool # NoPoolSelected
  /\ tick \in LowerSliderTicks(selectedClmmPool.tickSpacing)
  /\ mintTickLower' = tick
  /\ mintPriceLower' = ToFixed4(tickToPrice(tick))
  /\ mintCall' = NoMint
  /\ UNCHANGED <<selectedClmmPool, mintTickUpper, mintPriceUpper, mintAmountA,
                 mintAmountB, clmmLoading>>
  /\ UNCHANGED <<hvars, svars, tvars, pvars, qvars, evars>>

\* Max Price slider, line 1699: min 0, max 1000, step tickSpacing
MoveUpperSlider(tick) ==
  /\ selectedClmmPool # NoPoolSelected
  /\ tick \in UpperSliderTicks(selectedClmmPool.tickSpacing)
  /\ mintTickUpper' = tick
  /\ mintPriceUpper' = ToFixed4(tickToPrice(tick))
  /\ mintCall' = NoMint
  /\ UNCHANGED <<selectedClmmPool, mintTickLower, mintPriceLower, mintAmountA,
                 mintAmountB, clmmLoading>>
  /\ UNCHANGED <<hvars, svars, tvars, pvars, qvars, evars>>

\* parseFloat(text) > 0 of an amount the user typed
IsPositiveAmount(text) == text.text = "typed" /\ text.value > 0

\* token A amount field, lines 1767-1782; the field is disabled when token
\* A is not needed
SetMintAmountA(text) ==
  /\ selectedClmmPool # NoPoolSelected
  /\ NeedsA(selectedClmmPool.priceX6, mintPriceLower)
  /\ mintAmountA' = text
  /\ mintAmountB' =
       IF IsPositiveAmount(text)
          /\ NeedsB(selectedClmmPool.priceX6, mintPriceLower, mintPriceUpper)
       THEN Fixed6Text(calcAmountB(text.value, selectedClmmPool.priceX6,
                                   mintPriceLower, mintPriceUpper))
       ELSE mintAmountB
  /\ mintCall' = [ev |-> "amountA", text |-> text]
  /\ UNCHANGED <<selectedClmmPool, mintTickLower, mintTickUpper, mintPriceLower,
                 mintPriceUpper, clmmLoading>>
  /\ UNCHANGED <<hvars, svars, tvars, pvars, qvars, evars>>

\* token B amount field, lines 1789-1804; the field is disabled when token
\* B is not needed
SetMintAmountB(text) ==
  /\ selectedClmmPool # NoPoolSelected
  /\ NeedsB(selectedClmmPool.priceX6, mintPriceLower, mintPriceUpper)
  /\ mintAmountB' = text
  /\ mintAmountA' =
       IF IsPositiveAmount(text) /\ NeedsA(selectedClmmPool.priceX6, mintPriceLower)
       THEN Fixed6Text(calcAmountA(text.value, selectedClmmPool.priceX6,
                                   mintPriceLower, mintPriceUpper))
       ELSE mintAmountA
  /\ mintCall' = [ev |-> "amountB", text |-> text]
  /\ UNCHANGED <<selectedClmmPool, mintTickLower, mintTickUpper, mintPriceLower,
                 mintPriceUpper, clmmLoading>>
  /\ UNCHANGED <<hvars, svars, tvars, pvars, qvars, evars>>

\* BigInt(Math.floor(parseFloat(text) * 1_000_000)) of a non-empty amount
AmountMicro(text) ==
  IF text.text = "typed" THEN [micro |-> text.value * 1000000]
  ELSE [floorOfMicro |-> text]

\* handleMintPosition, lines 778-794, behind the Create Position button of
\* line 1821
HandleMintPosition ==
  /\ walletAddress # ""
  /\ selectedClmmPool # NoPoolSelected
  /\ mintAmountA # EmptyText
  /\ mintAmountB # EmptyText
  /\ ~clmmLoading
  /\ clmmLoading' = TRUE
  /\ mintCall' = [ev |-> "mintCLMMPosition",
                  poolId |-> selectedClmmPool.id,
                  tickLower |-> mintTickLower,
                  tickUpper |-> mintTickUpper,
                  amountA |-> AmountMicro(mintAmountA),
                  amountB |-> AmountMicro(mintAmountB)]
  /\ UNCHANGED <<selectedClmmPool, mintTickLower, mintTickUpper, mintPriceLower,
                 mintPriceUpper, mintAmountA, mintAmountB>>
  /\ UNCHANGED <<hvars, svars, tvars, pvars, qvars, evars>>

\* handleMintPosition, lines 795-817: the wallet answers
MintSettles(outcome) ==
  /\ clmmLoading
  /\ IF outcome = "ok"
     THEN mintAmountA' = EmptyText /\ mintAmountB' = EmptyText
     ELSE UNCHANGED <<mintAmountA, mintAmountB>>
  /\ clmmLoading' = FALSE
  /\ mintCall' = NoMint
  /\ UNCHANGED <<selectedClmmPool, mintTickLower, mintTickUpper, mintPriceLower,
                 mintPriceUpper>>
  /\ UNCHANGED <<hvars, svars, tvars, pvars, qvars, evars>>

NextMint ==
  \/ ConnectWallet
  \/ FetchClmmPoolsAt(MintPoolList)
  \/ \E i \in 1..2 : SelectClmmPool(i)
  \/ DeselectClmmPool
  \/ \E text \in TypedPrices : SetMintPriceLower(text)
  \/ \E text \in TypedPrices : SetMintPriceUpper(text)
  \/ \E tick \in -SliderReach..0 : MoveLowerSlider(tick)
  \/ \E tick \in 0..SliderReach : MoveUpperSlider(tick)
  \/ \E text \in TypedAmountTexts : SetMintAmountA(text)
  \/ \E text \in TypedAmountTexts : SetMintAmountB(text)
  \/ HandleMintPosition
  \/ \E outcome \in WalletOutcomes : MintSettles(outcome)

\* ========================================================================
\* The realm's GetQuote(poolID, tokenIn, amountIn), which gno.ts getQuote
\* evaluates on the chain.  The realm is not among the front end's files;
\* the formula is the one the specification gives for the V2 quote:
\*   amountInAfterFee = amountIn * (10000 - feeBps) / 10000
\*   amountOut = reserveOut * amountInAfterFee / (reserveIn + amountInAfterFee)
\* in integer arithmetic, and 0 for a pool with an empty side.
\* ========================================================================
AmountInAfterFee(amountIn, feeBps) == MulDivMod(10000 - feeBps, amountIn, 10000)[1]

\* V2QuoteFeeOnOutput is the variant that takes the fee from the output;
\* V2QuoteNoReserveIn the one that leaves reserveIn out of the divisor.
V2QuoteFeeOnOutput(reserveIn, reserveOut, feeBps, amountIn) ==
  IF reserveIn = 0 \/ reserveOut = 0 THEN 0
  ELSE AmountInAfterFee(MulDivMod(reserveOut, amountIn, reserveIn + amountIn)[1], feeBps)
V2QuoteNoReserveIn(reserveIn, reserveOut, feeBps, amountIn) ==
  IF reserveIn = 0 \/ reserveOut = 0 \/ AmountInAfterFee(amountIn, feeBps) = 0 THEN 0
  ELSE LET after == AmountInAfterFee(amountIn, feeBps)
       IN MulDivMod(reserveOut, after, after)[1]
V2Quote(reserveIn, reserveOut, feeBps, amountIn) ==
  IF reserveIn = 0 \/ reserveOut = 0 THEN 0
  ELSE LET after == AmountInAfterFee(amountIn, feeBps)
       IN MulDivMod(reserveOut, after, reserveIn + after)[1]

\* the pools quotes are asked of, and the amounts asked
QuotedPools ==
  {[reserveIn |-> 1000000, reserveOut |-> 2000000, feeBps |-> 30],
   [reserveIn |-> 1000000, reserveOut |-> 2000000, feeBps |-> 0],
   [reserveIn |-> 5, reserveOut |-> 5, feeBps |-> 30],
   [reserveIn |-> 1000, reserveOut |-> 3, feeBps |-> 100]}

AmountIns == {1, 2, 333, 334, 10000, 1000000, 100000000}

NoPoolQuoted == [pool |-> "none"]

\* quoted: the pool and, for every amount asked so far, what GetQuote answered
InitQuote == quoted = [pool |-> NoPoolQuoted, asked |-> [a \in {} |-> 0]]

\* the pool quotes are asked of from now on
PickPool(pool) ==
  /\ quoted.pool = NoPoolQuoted
  /\ quoted' = [pool |-> pool, asked |-> [a \in {} |-> 0]]
  /\ UNCHANGED <<hvars, svars, tvars, pvars, mvars, evars>>

\* GetQuote for amountIn
GetQuote(amountIn) ==
  /\ quoted.pool # NoPoolQuoted
  /\ amountIn \notin DOMAIN quoted.asked
  /\ quoted' = [quoted EXCEPT !.asked =
              [a \in DOMAIN quoted.asked \cup {amountIn} |->
                 IF a = amountIn
                 THEN V2Quote(quoted.pool.reserveIn, quoted.pool.reserveOut, quoted.pool.feeBps, a)
                 ELSE quoted.asked[a]]]
  /\ UNCHANGED <<hvars, svars, tvars, pvars, mvars, evars>>

NextQuote ==
  \/ \E pool \in QuotedPools : PickPool(pool)
  \/ \E amountIn \in AmountIns : GetQuote(amountIn)

\* ========================================================================
\* clmm.ts: tickToPrice and priceToTick applied to ticks and prices
\* ========================================================================
\* the ticks converted to a price, and the prices that are not of a tick:
\* 1/4, 1/2, 2, 3, and the non-positive 0, -1 and -1/2
RoundTripTicks == -4..4
OtherPrices == {<<1, 4>>, <<1, 2>>, <<2, 1>>, <<3, 1>>, <<0, 1>>, <<-1, 1>>, <<-1, 2>>}

ConvertedPrices == {tickToPrice(t) : t \in RoundTripTicks} \cup OtherPrices

\* how many conversions of each kind one run makes
MaxConversions == 2

NoConversions == [prices |-> [t \in {} |-> <<1, 1>>], ticks |-> [p \in {} |-> 0]]

InitTicks == conv = NoConversions

\* tickToPrice(tick) is called and returns
TickToPrice(tick) ==
  /\ tick \notin DOMAIN conv.prices
  /\ Cardinality(DOMAIN conv.prices) < MaxConversions
  /\ conv' = [conv EXCEPT !.prices =
                [t \in DOMAIN conv.prices \cup {tick} |->
                   IF t = tick THEN tickToPrice(tick) ELSE conv.prices[t]]]
  /\ UNCHANGED <<hvars, svars, tvars, pvars, mvars, qvars, tx>>

\* priceToTick(price) is called, with a price tickToPrice returned or with
\* another price; the function has no throw statement, so it returns
PriceToTick(price) ==
  /\ price \in {conv.prices[t] : t \in DOMAIN conv.prices} \cup OtherPrices
  /\ price \notin DOMAIN conv.ticks
  /\ Cardinality(DOMAIN conv.ticks) < MaxConversions
  /\ conv' = [conv EXCEPT !.ticks =
                [p \in DOMAIN conv.ticks \cup {price} |->
                   IF p = price
                   THEN [threw |-> FALSE, returned |-> priceToTick(price)]
                   ELSE conv.ticks[p]]]
  /\ UNCHANGED <<hvars, svars, tvars, pvars, mvars, qvars, tx>>

NextTicks ==
  \/ \E tick \in RoundTripTicks : TickToPrice(tick)
  \/ \E price \in ConvertedPrices : PriceToTick(price)

\* ========================================================================
\* page.tsx: a transaction handler (handleSwap, lines 445-500; the other
\* handlers are built the same way), the toast it shows (Toast.tsx) and the
\* refreshes it starts (onRefresh, lines 550-603)
\* ========================================================================
\* how the awaited wallet call settles: result.code 0, 4000, 4001, another
\* code, a thrown user rejection, another thrown error
TxOutcomes ==
  {"code 0", "code 4000", "code 4001", "other code", "thrown rejection", "thrown error"}

\* how many transactions one run submits
MaxTxs == 1

\* the handlers that submit a transaction, and the loading flag of each
Handlers ==
  {"handleSwap", "handleAddLiquidity", "handleRemoveLiquidity", "handleCreateClmmPool",
   "handleMintPosition", "handleBurnPosition", "handleCollectFees"}
LoadingFlags == {"swapLoading", "actionLoading", "clmmLoading"}
LoadingFlagOf(handler) ==
  IF handler = "handleSwap" THEN "swapLoading"
  ELSE IF handler \in {"handleAddLiquidity", "handleRemoveLiquidity"} THEN "actionLoading"
  ELSE "clmmLoading"

\* lines 476-496: what the handler does with its loading toast.
\* ToastAfterNoElse is the variant without the two else branches.
ToastAfterNoElse(outcome) ==
  IF outcome = "code 0" THEN "success"
  ELSE IF outcome \in {"code 4000", "code 4001", "thrown rejection"} THEN "dismiss"
  ELSE "loading"
ToastAfter(outcome) ==
  IF outcome = "code 0" THEN "success"
  ELSE IF outcome \in {"code 4000", "code 4001", "thrown rejection"} THEN "dismiss"
  ELSE "error"

\* Toast.tsx, update (lines 57-66): the toast changes type if it is still
\* shown, and a removal timer is started unless the new type is loading
ToastsUpdated(toasts, id, type) ==
  [i \in DOMAIN toasts |-> IF i = id THEN type ELSE toasts[i]]
TimersUpdated(timers, id, type) ==
  IF type # "loading" THEN timers \cup {id} ELSE timers

\* Toast.tsx, removeToast (lines 39-41)
ToastsWithout(toasts, id) == [i \in DOMAIN toasts \ {id} |-> toasts[i]]

\* formatPairName, priceHistory.ts lines 176-187
UpperDenom(d) == CASE d = "a" -> "A" [] d = "b" -> "B" [] d = "c" -> "C"
formatPairName(denomA, denomB) == UpperDenom(denomA) \o "/" \o UpperDenom(denomB)

\* onRefresh, lines 558 and 565: the pools a price is recorded for.
\* RecordsV2EitherReserve is the variant that asks for one reserve only.
RecordsV2EitherReserve(pool) == pool.reserveA > 0 \/ pool.reserveB > 0
RecordsV2(pool) == pool.reserveA > 0 /\ pool.reserveB > 0
RecordsClmm(pool) == pool.priceX6 > 0

\* lines 559 and 566: the prices, in units of 1 / 1000
V2PriceOf(pool) == (pool.reserveB * 1000) \div pool.reserveA
ClmmPriceOf(pool) == pool.priceX6 \div 1000

\* lines 557-571: the recordPrice calls of one refresh, in order
RECURSIVE V2CallsOf(_)
V2CallsOf(poolData) ==
  IF poolData = <<>> THEN <<>>
  ELSE (IF RecordsV2(Head(poolData))
        THEN <<[kind |-> "v2", id |-> Head(poolData).id,
                pair |-> formatPairName(Head(poolData).denomA, Head(poolData).denomB),
                price |-> V2PriceOf(Head(poolData))]>>
        ELSE <<>>) \o V2CallsOf(Tail(poolData))
RECURSIVE ClmmCallsOf(_)
ClmmCallsOf(clmmData) ==
  IF clmmData = <<>> THEN <<>>
  ELSE (IF RecordsClmm(Head(clmmData))
        THEN <<[kind |-> "clmm", id |-> Head(clmmData).id,
                pair |-> formatPairName(Head(clmmData).denomA, Head(clmmData).denomB),
                price |-> ClmmPriceOf(Head(clmmData))]>>
        ELSE <<>>) \o ClmmCallsOf(Tail(clmmData))

\* the store after those calls
RECURSIVE StoreAfter(_, _, _)
StoreAfter(s, recordCalls, t) ==
  IF recordCalls = <<>> THEN s
  ELSE StoreAfter(recordPrice(s, Head(recordCalls).pair, Head(recordCalls).price, t),
                  Tail(recordCalls), t)

\* what getAllPools and getAllCLMMPools answer a refresh with.  getAllPools
\* rejects when a query fails; getAllCLMMPools catches and leaves pools out.
V2Pool(id, denomA, denomB, reserveA, reserveB) ==
  [id |-> id, denomA |-> denomA, denomB |-> denomB, reserveA |-> reserveA,
   reserveB |-> reserveB]
FetchThrew == [fetch |-> "getAllPools rejected"]
RefreshedChains ==
  {[fetch |-> "ok",
    pools |-> <<V2Pool(0, "a", "b", 1000000, 2000000), V2Pool(1, "a", "c", 0, 0)>>,
    clmmPools |-> <<ClmmPool(0, [currentTick |-> 0, priceX6 |-> 1000000, tickSpacing |-> 1])>>],
   [fetch |-> "ok",
    pools |-> <<V2Pool(0, "a", "b", 1000000, 2010000), V2Pool(1, "a", "c", 5, 0),
                V2Pool(2, "b", "c", 4, 2)>>,
    clmmPools |-> <<ClmmPool(0, [currentTick |-> 1, priceX6 |-> 1010000, tickSpacing |-> 1]),
                    ClmmPool(1, [currentTick |-> 0, priceX6 |-> 0, tickSpacing |-> 1])>>]}
RefreshAnswers == RefreshedChains \cup {FetchThrew}

NoTx ==
  [pc |-> "idle", txs |-> 0, handler |-> "none", outcome |-> "none",
   loading |-> [f \in LoadingFlags |-> FALSE],
   loadingToast |-> 0, toasts |-> [i \in {} |-> "loading"], timers |-> {},
   removed |-> [i \in {} |-> [by |-> "dismiss", was |-> "loading"]],
   refreshTimers |-> 0, log |-> <<>>]

InitTx == tx = NoTx

\* everything of the page a transaction handler and its refreshes leave alone
txRest ==
  <<now, ticks, calls, lastCall, appended, statsOut, fromToken, toToken,
    fromAmount, toAmount, bestQuote, quoteAmountIn, slippageBps, walletAddress, quoteLoading,
    swapLoading, timerArmed, runs, done, swapCall, tvars, pvars, mvars, qvars,
    conv>>

\* a handler up to its wallet call (handleSwap, lines 445-448): the loading
\* flag is set and toast.loading shows a toast that has no timer
SubmitTx(handler) ==
  /\ tx.pc \in {"idle", "ended"}
  /\ tx.txs < MaxTxs
  /\ tx' = [tx EXCEPT !.pc = "wallet", !.txs = @ + 1, !.handler = handler,
                      !.outcome = "none",
                      !.loading[LoadingFlagOf(handler)] = TRUE,
                      !.loadingToast = tx.txs + 1,
                      !.toasts = [i \in DOMAIN tx.toasts \cup {tx.txs + 1} |->
                                    IF i = tx.txs + 1 THEN "loading" ELSE tx.toasts[i]]]
  /\ UNCHANGED <<store, pools, clmmPools, txRest>>

\* the wallet call settles, lines 476-499.  After code 0 the handler goes on
\* to wait 1.5 s; otherwise it ends in its finally block.
WalletSettles(outcome) ==
  /\ tx.pc = "wallet"
  /\ LET id == tx.loadingToast
         todo == ToastAfter(outcome)
     IN tx' = [tx EXCEPT
                 !.outcome = outcome,
                 !.pc = IF outcome = "code 0" THEN "waiting" ELSE "ended",
                 !.loading[LoadingFlagOf(tx.handler)] = (outcome = "code 0"),
                 !.toasts = IF todo = "dismiss" THEN ToastsWithout(tx.toasts, id)
                            ELSE ToastsUpdated(tx.toasts, id, todo),
                 !.timers = IF todo = "dismiss" THEN tx.timers
                            ELSE TimersUpdated(tx.timers, id, todo),
                 !.removed = IF todo = "dismiss"
                             THEN [i \in DOMAIN tx.removed \cup {id} |->
                                     IF i = id THEN [by |-> "dismiss", was |-> tx.toasts[id]]
                                     ELSE tx.removed[i]]
                             ELSE tx.removed]
  /\ UNCHANGED <<store, pools, clmmPools, txRest>>

\* onRefresh, lines 550-603, answered with `answer`: what it leaves in the
\* log of refreshes
Refreshed(answer) ==
  IF answer = FetchThrew THEN [threw |-> TRUE, pools |-> <<>>, clmmPools |-> <<>>,
                               recordCalls |-> <<>>]
  ELSE [threw |-> FALSE, pools |-> answer.pools, clmmPools |-> answer.clmmPools,
        recordCalls |-> V2CallsOf(answer.pools) \o ClmmCallsOf(answer.clmmPools)]

\* what onRefresh does to the page and to the store
OnRefresh(answer) ==
  IF answer = FetchThrew THEN UNCHANGED <<store, pools, clmmPools>>
  ELSE /\ pools' = answer.pools
       /\ clmmPools' = answer.clmmPools
       /\ store' = StoreAfter(store, Refreshed(answer).recordCalls, now)

\* lines 482-484 and 497-499: the awaited refresh returns, the second
\* refresh is put on a 2.5 s timer, and the finally block ends the handler
AwaitedRefresh(answer) ==
  /\ tx.pc = "waiting"
  /\ OnRefresh(answer)
  /\ tx' = [tx EXCEPT !.pc = "ended", !.loading[LoadingFlagOf(tx.handler)] = FALSE,
                      !.refreshTimers = @ + 1,
                      !.log = Append(@, Refreshed(answer))]
  /\ UNCHANGED txRest

\* line 484: the timer of the second refresh fires
TimerRefresh(answer) ==
  /\ tx.refreshTimers > 0
  /\ OnRefresh(answer)
  /\ tx' = [tx EXCEPT !.refreshTimers = @ - 1, !.log = Append(@, Refreshed(answer))]
  /\ UNCHANGED txRest

\* Toast.tsx, lines 48 and 64: a removal timer fires
ToastTimerFires(id) ==
  /\ id \in tx.timers
  /\ tx' = [tx EXCEPT
              !.timers = @ \ {id},
              !.toasts = ToastsWithout(@, id),
              !.removed = IF id \in DOMAIN tx.toasts
                          THEN [i \in DOMAIN tx.removed \cup {id} |->
                                  IF i = id THEN [by |-> "timer", was |-> tx.toasts[id]]
                                  ELSE tx.removed[i]]
                          ELSE tx.removed]
  /\ UNCHANGED <<store, pools, clmmPools, txRest>>

\* Toast.tsx, line 113: the close button, shown on every toast but a loading
\* one
CloseToast(id) ==
  /\ id \in DOMAIN tx.toasts
  /\ tx.toasts[id] # "loading"
  /\ tx' = [tx EXCEPT
              !.toasts = ToastsWithout(@, id),
              !.removed = [i \in DOMAIN tx.removed \cup {id} |->
                             IF i = id THEN [by |-> "close", was |-> tx.toasts[id]]
                             ELSE tx.removed[i]]]
  /\ UNCHANGED <<store, pools, clmmPools, txRest>>

\* the wall clock advances while the page is open
TxTick ==
  /\ ticks < MaxTicks
  /\ now' = now + MIN_INTERVAL_MS
  /\ ticks' = ticks + 1
  /\ UNCHANGED <<store, calls, lastCall, appended, statsOut, svars, tvars, pvars,
                 mvars, qvars, evars>>

\* FetchPools and FetchClmmPools are the 60 s polls of lines 283-313
NextTx ==
  \/ \E handler \in Handlers : SubmitTx(handler)
  \/ \E outcome \in TxOutcomes : WalletSettles(outcome)
  \/ \E answer \in RefreshAnswers : AwaitedRefresh(answer)
  \/ \E answer \in RefreshAnswers : TimerRefresh(answer)
  \/ \E id \in 1..MaxTxs : ToastTimerFires(id)
  \/ \E id \in 1..MaxTxs : CloseToast(id)
  \/ FetchPools
  \/ FetchClmmPools
  \/ TxTick

\* ========================================================================
\* priceHistory.ts, recordPrice called with any JavaScript number
\* ========================================================================
PlusInfinity == [number |-> "Infinity"]
Finite(v) == [number |-> "finite", value |-> v]
isFinite(num) == num.number = "finite"

\* the numbers offered as a price: negative, zero, positive, NaN, the two
\* infinities
Numbers ==
  {Finite(v) : v \in {-1000, 0} \cup PriceVals}
    \cup {NotANumber, PlusInfinity, MinusInfinity}

\* line 72: price <= 0 || !isFinite(price).  ReturnsAtOnceNotFinite is the
\* variant without the first test.
ReturnsAtOnceNotFinite(num) == ~isFinite(num)
ReturnsAtOnce(num) ==
  \/ isFinite(num) /\ num.value <= 0
  \/ num = MinusInfinity
  \/ ~isFinite(num)

\* recordPrice(pair, num), lines 71-112: the return of line 72 comes before
\* getStorageData is called
RecordNumber(pair, num) ==
  /\ calls < MaxCalls
  /\ calls' = calls + 1
  /\ IF ReturnsAtOnce(num)
     THEN /\ lastCall' = [op |-> "recordPrice", pair |-> pair, number |-> num,
                          read |-> FALSE, threw |-> FALSE]
          /\ UNCHANGED <<store, appended>>
     ELSE IF Throws(store, now)
     THEN /\ lastCall' = [op |-> "recordPrice", pair |-> pair, number |-> num,
                          read |-> TRUE, threw |-> TRUE]
          /\ UNCHANGED <<store, appended>>
     ELSE /\ store' = recordPrice(store, pair, num.value, now)
          /\ appended' = IF Pushes(store, pair, num.value, now)
                         THEN [appended EXCEPT ![pair] =
                                 Append(@, [timestamp |-> now, price |-> num.value])]
                         ELSE appended
          /\ lastCall' = [op |-> "recordPrice", pair |-> pair, number |-> num,
                          read |-> TRUE, threw |-> FALSE]
  /\ statsOut' = NoStats
  /\ UNCHANGED <<now, ticks>>
  /\ UNCHANGED notHistory

NextNumbers ==
  \/ \E d \in Deltas : Tick(d)
  \/ \E pair \in PairNames, num \in Numbers : RecordNumber(pair, num)

\* ------------------------------------------------------------------------
\* Specifications
\* ------------------------------------------------------------------------
HistoryIdle ==
  /\ store = NoData /\ now = 0 /\ ticks = 0 /\ calls = 0 /\ lastCall = NoCall
  /\ appended = [p \in PairNames |-> <<>>] /\ statsOut = NoStats

\* the parts of the page a specification leaves alone
RestIdle ==
  TabsIdle /\ PositionsIdle /\ InitMint /\ InitQuote /\ InitTicks /\ InitTx

\* the store as the page finds it, with the form freshly mounted
InitStore == InitHistory /\ InitSwap /\ RestIdle

\* the form freshly mounted, with no price recorded yet
InitForm == InitSwap /\ HistoryIdle /\ RestIdle

\* the page freshly mounted over any persisted value
InitLoaded == InitStorage /\ InitSwap /\ RestIdle

\* the price-history store on its own
SpecHistory == InitStore /\ [][NextHistory]_vars

\* route selection on its own
SpecRoute == InitForm /\ [][NextRoute]_vars

\* the swap form with the wallet
SpecSwap == InitForm /\ [][NextSwap]_vars

\* two tabs recording prices into the one store
SpecTabs == InitForm /\ [][NextTabs]_vars

\* the history functions over any persisted value
SpecStorage == InitLoaded /\ [][NextStorage]_vars

\* the positions tab
SpecPositions == InitForm /\ [][NextPositions]_vars

\* the mint form
SpecMint == InitForm /\ [][NextMint]_vars

\* V2 quotes of one pool
SpecQuote == InitForm /\ [][NextQuote]_vars

\* recordPrice with any number, over any persisted value
SpecNumbers == InitLoaded /\ [][NextNumbers]_vars

\* the tick and price conversions
SpecTicks == InitForm /\ [][NextTicks]_vars

\* a transaction, its toast and its refreshes
SpecTx == InitForm /\ [][NextTx]_vars

\* ========================================================================
\* Properties of route selection and of the swap submission
\* ========================================================================
\* the answers the completed invocation d got, one per pool it asked
Results(d) ==
  {[query |-> d.queries[i], answer |-> d.answers[i]] : i \in 1..Len(d.queries)}

PairMatches(p, from, to) ==
  \/ p.denomA = from /\ p.denomB = to
  \/ p.denomA = to /\ p.denomB = from

\* the pools of the snapshot that trade the requested pair and are not empty
EligibleV2(d) ==
  {d.pools[i] : i \in {j \in 1..Len(d.pools) :
      /\ PairMatches(d.pools[j], d.from, d.to)
      /\ d.pools[j].reserveA # 0
      /\ d.pools[j].reserveB # 0}}

EligibleClmm(d) ==
  {d.clmmPools[i] : i \in {j \in 1..Len(d.clmmPools) :
      /\ PairMatches(d.clmmPools[j], d.from, d.to)
      /\ d.clmmPools[j].liquidity # 0}}

\* the strictly positive quotes returned by eligible pools (for a CLMM pool:
\* within a quarter of its liquidity)
PositiveQuotes(d) ==
  {r \in Results(d) :
     /\ r.answer # Threw
     /\ r.answer[1] > 0
     /\ \/ r.query.poolType = "v2" /\ r.query.pool \in EligibleV2(d)
        \/ /\ r.query.poolType = "clmm"
           /\ r.query.pool \in EligibleClmm(d)
           /\ 4 * r.answer[1] <= r.query.pool.liquidity}

\* the pool a quote refers to
PoolOf(quote) == IF quote.poolType = "v2" THEN quote.pool ELSE quote.clmmPool

\* result r is the one the quote was built from
IsSourceOf(r, quote) ==
  /\ r.query.poolType = quote.poolType
  /\ r.query.pool = PoolOf(quote)
  /\ r.answer[1] = quote.amountOut

\* C1: when updateQuote completes, every eligible pool of its snapshot has
\* been asked, and a best quote carries the largest amount among the
\* positive quotes of the eligible pools and names a pool that returned
\* exactly that amount.
C1_PicksMaximum ==
  done # NoRun =>
    /\ \A p \in EligibleV2(done) :
         \E r \in Results(done) : r.query.poolType = "v2" /\ r.query.pool = p
    /\ \A p \in EligibleClmm(done) :
         \E r \in Results(done) : r.query.poolType = "clmm" /\ r.query.pool = p
    /\ PositiveQuotes(done) # {} => bestQuote # NoQuote
    /\ bestQuote # NoQuote =>
         /\ \E r \in PositiveQuotes(done) : IsSourceOf(r, bestQuote)
         /\ \A r \in PositiveQuotes(done) : r.answer[1] <= bestQuote.amountOut

\* C1 witness: an invocation completed with two different positive quotes
\* and the best quote carries the larger one.
C1_Witness ==
  /\ done # NoRun
  /\ bestQuote # NoQuote
  /\ \E r \in PositiveQuotes(done) : r.answer[1] < bestQuote.amountOut

\* C2: updateQuote ends without a quote exactly when no eligible pool
\* returned a strictly positive, sane amount; a best quote always has
\* amountOut > 0.
C2_NoZeroQuote ==
  /\ done # NoRun => (bestQuote = NoQuote <=> PositiveQuotes(done) = {})
  /\ bestQuote # NoQuote => bestQuote.amountOut > 0

\* C2 witness: an invocation asked several pools, one of them answered 0,
\* none gave a usable amount, and there is no best quote.
C2_Witness ==
  /\ done # NoRun
  /\ Len(done.queries) >= 2
  /\ \E r \in Results(done) : r.answer = <<0>>
  /\ bestQuote = NoQuote

\* C3: a best quote of type 'clmm' never exceeds a quarter of the liquidity
\* of its pool.
C3_SanityCeiling ==
  (bestQuote # NoQuote /\ bestQuote.poolType = "clmm") =>
     4 * bestQuote.amountOut <= bestQuote.clmmPool.liquidity

\* C3 witness: a CLMM pool answered more than a quarter of its liquidity and
\* the best quote comes from a CLMM pool, at exactly a quarter.
C3_Witness ==
  /\ done # NoRun
  /\ \E r \in Results(done) :
       r.query.poolType = "clmm" /\ 4 * r.answer[1] > r.query.pool.liquidity
  /\ bestQuote # NoQuote
  /\ bestQuote.poolType = "clmm"
  /\ 4 * bestQuote.amountOut = bestQuote.clmmPool.liquidity

\* x comes no later than y in the order "V2 pools by id, then CLMM pools by id"
ComesFirst(x, y) ==
  \/ x.poolType = "v2" /\ y.poolType = "clmm"
  \/ x.poolType = y.poolType /\ x.pool.id <= y.pool.id

\* C4: among the eligible pools that returned the maximal amount the best
\* quote names the first one, V2 pools in ascending id before CLMM pools in
\* ascending id.
C4_FirstSeenWins ==
  (done # NoRun /\ bestQuote # NoQuote) =>
     \A r \in PositiveQuotes(done) :
        r.answer[1] = bestQuote.amountOut =>
          ComesFirst([poolType |-> bestQuote.poolType, pool |-> PoolOf(bestQuote)],
                     r.query)

\* C4 witness: two V2 pools and two CLMM pools returned the maximal amount.
C4_Witness ==
  /\ done # NoRun
  /\ bestQuote # NoQuote
  /\ \E r1, r2, r3, r4 \in PositiveQuotes(done) :
       /\ r1.answer[1] = bestQuote.amountOut /\ r2.answer[1] = bestQuote.amountOut
       /\ r3.answer[1] = bestQuote.amountOut /\ r4.answer[1] = bestQuote.amountOut
       /\ r1.query.poolType = "v2" /\ r2.query.poolType = "v2"
       /\ r3.query.poolType = "clmm" /\ r4.query.poolType = "clmm"
       /\ r1.query.pool.id < r2.query.pool.id
       /\ r3.query.pool.id < r4.query.pool.id

\* the denom a pool holds on side A or B
DenomOnSide(p, side) == IF side = "A" THEN p.denomA ELSE p.denomB
OtherSide(side) == IF side = "A" THEN "B" ELSE "A"

\* C5: every pool updateQuote asks is asked with tokenIn 'A' when its denomA
\* is the requested source token and 'B' otherwise; the selected quote has
\* the source token on side tokenIn and the destination token on the other
\* side; handleSwap sends the denom of side tokenIn as denomIn.
C5_Orientation ==
  /\ done # NoRun =>
       /\ \A r \in Results(done) :
            r.query.tokenIn = (IF r.query.pool.denomA = done.from THEN "A" ELSE "B")
       /\ bestQuote # NoQuote =>
            /\ DenomOnSide(PoolOf(bestQuote), bestQuote.tokenIn) = done.from
            /\ DenomOnSide(PoolOf(bestQuote), OtherSide(bestQuote.tokenIn)) = done.to
  /\ swapCall # NoSwap =>
       /\ swapCall.tokenIn = swapCall.quote.tokenIn
       /\ swapCall.poolId = PoolOf(swapCall.quote).id
       /\ swapCall.denomIn = DenomOnSide(PoolOf(swapCall.quote), swapCall.tokenIn)

\* C5 witness: a swap was handed to the wallet with tokenIn 'B' for a pool
\* whose side B holds the selected source token.
C5_Witness ==
  /\ swapCall # NoSwap
  /\ swapCall.tokenIn = "B"
  /\ swapCall.denomIn = fromToken
  /\ PoolOf(swapCall.quote).denomB = fromToken
  /\ PoolOf(swapCall.quote).denomA = toToken

\* C6: the minAmountOut handleSwap submits is
\* floor(amountOut * (10000 - slippageBps) / 10000), never more than
\* amountOut, for each selectable tolerance; with 50 bps and an amountOut of
\* 1_000_000 it is 995_000.
C6_MinimumReceived ==
  swapCall # NoSwap =>
    LET a == swapCall.quote.amountOut
        m == swapCall.minAmountOut
        cut == a * slippageBps
    IN /\ slippageBps \in {10, 50, 100, 200}
       /\ (a - m) * 10000 >= cut
       /\ (a - m - 1) * 10000 < cut
       /\ m <= a
       /\ (slippageBps = 50 /\ a = 1000000) => m = 995000

\* C6 witness: a swap of a quote of 1_000_000 was submitted at 50 bps with
\* a minAmountOut of 995_000.
C6_Witness ==
  /\ swapCall # NoSwap
  /\ slippageBps = 50
  /\ swapCall.quote.amountOut = 1000000
  /\ swapCall.minAmountOut = 995000

\* ========================================================================
\* Properties of the price-history store
\* ========================================================================
\* the points persisted for a pair
StoredPoints(st, pair) == IF st = NoData THEN <<>> ELSE PointsOf(st, pair)

\* a is a suffix of b
IsSuffix(a, b) ==
  /\ Len(a) <= Len(b)
  /\ \A i \in 1..Len(a) : a[i] = b[Len(b) - Len(a) + i]

\* the step is a recordPrice call
IsRecordStep == lastCall'.op = "recordPrice" /\ calls' = calls + 1

C8_CountCap ==
  store # NoData =>
    \A p \in DOMAIN store.pairs :
      /\ Len(store.pairs[p]) <= MAX_DATA_POINTS
      /\ IsSuffix(store.pairs[p], appended[p])

\* C8 witness: more than MAX_DATA_POINTS points were appended to a pair and
\* the series holds exactly MAX_DATA_POINTS of them.
C8_Witness ==
  /\ store # NoData
  /\ \E p \in DOMAIN store.pairs :
       /\ Len(appended[p]) > MAX_DATA_POINTS
       /\ Len(store.pairs[p]) = MAX_DATA_POINTS
       /\ store.pairs[p][1] # appended[p][1]

\* C9: a recordPrice call made more than one hour after lastCleanup leaves
\* a persisted store with lastCleanup = now and without any point older
\* than the age window, in any pair; a call made less than an hour after
\* lastCleanup leaves lastCleanup alone.
C9_SweepPersisted ==
  [][(IsRecordStep /\ store # NoData) =>
       IF now - store.lastCleanup > 3600000
       THEN /\ store'.lastCleanup = now
            /\ \A p \in DOMAIN store'.pairs :
                 \A i \in 1..Len(store'.pairs[p]) :
                   store'.pairs[p][i].timestamp > now - MAX_AGE_MS
       ELSE now - store.lastCleanup < 3600000 =>
              store'.lastCleanup = store.lastCleanup]_vars

\* C10: for a pair with a stored point getPriceStats reports the price of
\* the last stored point as `current`, whatever its age, and without a point
\* of the last 24 hours it reports change24h = 0, changePercent24h = 0 and
\* high24h = low24h = current.
C10_Stats ==
  lastCall.op = "getPriceStats" =>
    LET pts == StoredPoints(store, lastCall.pair)
    IN pts # <<>> =>
         /\ statsOut # NoStats
         /\ statsOut.current = pts[Len(pts)].price
         /\ (\A i \in 1..Len(pts) : pts[i].timestamp <= now - 86400000) =>
              /\ statsOut.change24h = 0
              /\ statsOut.changePercent24h[1] = 0
              /\ statsOut.high24h = statsOut.current
              /\ statsOut.low24h = statsOut.current

\* C10 witness: statistics were asked for a pair whose points are all older
\* than 24 hours.
C10_Witness ==
  /\ lastCall.op = "getPriceStats"
  /\ LET pts == StoredPoints(store, lastCall.pair)
     IN /\ pts # <<>>
        /\ \A i \in 1..Len(pts) : pts[i].timestamp <= now - 86400000
        /\ statsOut # NoStats
        /\ statsOut.current = 1001

\* ========================================================================
\* Properties of the history store under concurrent use and over malformed
\* persisted values
\* ========================================================================
\* C11: once every recordPrice invocation has finished, every point an
\* invocation pushed is in the persisted series of its pair, whether the
\* invocations wrote the same pair or different pairs.
C11_NoLostUpdate ==
  (\A tab \in TabIds : tabs[tab] = IdleTab) =>
    \A p \in PairNames : \A i \in 1..Len(appended[p]) :
      \E j \in 1..Len(StoredPoints(store, p)) :
        StoredPoints(store, p)[j] = appended[p][i]

\* C12: over a persisted value that is missing, unparseable or of the wrong
\* shape, recordPrice, getPriceHistory, getAllPairsWithHistory and
\* getPriceStats return without raising and act as on an empty history.
C12_NeverFails ==
  [][(store \in PersistedValues /\ "threw" \in DOMAIN lastCall') =>
       /\ ~lastCall'.threw
       /\ lastCall'.op = "recordPrice" =>
            store' = recordPrice(NoData, lastCall'.pair, lastCall'.price, now)
       /\ lastCall'.op = "getPriceHistory" => lastCall'.returned = <<>>
       /\ lastCall'.op = "getAllPairsWithHistory" => lastCall'.returned = {}
       /\ lastCall'.op = "getPriceStats" => statsOut' = NoStats]_vars

\* ========================================================================
\* Properties of the positions tab
\* ========================================================================
\* the cards that show a position (the pool of the position was found)
ShownCards == {i \in 1..Len(cards) : cards[i] # NoCard}

\* the pool a position's card is drawn from in the current snapshot
SnapshotPoolOf(pos) ==
  clmmPools[CHOOSE i \in 1..Len(clmmPools) :
              /\ clmmPools[i].id = pos.poolId
              /\ \A j \in 1..Len(clmmPools) : clmmPools[j].id = pos.poolId => i <= j]

StrictlyInside(c) == FracLess(c.pL, c.pC) /\ FracLess(c.pC, c.pU)

\* C13: for every shown position (priceLower < priceUpper, liquidity > 0),
\* currentPrice >= priceUpper gives amountA = 0, currentPrice <= priceLower
\* gives amountB = 0, and a price strictly inside gives amountA > 0 and
\* amountB > 0.
C13_ThreeRegions ==
  \A i \in ShownCards :
    LET c == cards[i]
    IN /\ FracLeq(c.pU, c.pC) => c.amountA = <<0, 1>>
       /\ FracLeq(c.pC, c.pL) => c.amountB = <<0, 1>>
       /\ StrictlyInside(c) => FracSign(c.amountA) > 0 /\ FracSign(c.amountB) > 0

\* one shown position per region would need three cards; the witness is the
\* state that shows a position whose range the price is strictly inside
C13_Witness ==
  \E i \in ShownCards :
    /\ StrictlyInside(cards[i])
    /\ FracSign(cards[i].amountA) > 0
    /\ FracSign(cards[i].amountB) > 0

\* exact square roots of the fractions that have one
IsSquare(n) == \E r \in 0..200 : r * r = n
ISqrt(n) == CHOOSE r \in 0..200 : r * r = n
HasSqrt(f) == IsSquare(f[1]) /\ IsSquare(f[2])
Sqrt(f) == <<ISqrt(f[1]), ISqrt(f[2])>>

\* C14: for a price strictly inside the range, amountA =
\* L * (sqrt(pU) - sqrt(pC)) / (sqrt(pC) * sqrt(pU)) and amountB =
\* L * (sqrt(pC) - sqrt(pL)); stated for the positions whose three prices
\* have exact square roots.
C14_SqrtDecomposition ==
  \A i \in ShownCards :
    LET c == cards[i]
        liq == FracOfInt(clmmPositions[i].liquidity)
    IN (StrictlyInside(c) /\ HasSqrt(c.pL) /\ HasSqrt(c.pC) /\ HasSqrt(c.pU)) =>
         /\ c.amountA = FracDiv(FracMul(liq, FracSub(Sqrt(c.pU), Sqrt(c.pC))),
                                FracMul(Sqrt(c.pC), Sqrt(c.pU)))
         /\ c.amountB = FracMul(liq, FracSub(Sqrt(c.pC), Sqrt(c.pL)))

\* C15: a shown position is flagged in range iff tickLower <= currentTick <
\* tickUpper, with currentTick taken from the pool snapshot now on screen.
C15_InRangeFlag ==
  \A i \in ShownCards :
    LET pos == clmmPositions[i]
        pool == SnapshotPoolOf(pos)
    IN cards[i].inRange <=>
         (pos.tickLower <= pool.currentTick /\ pool.currentTick < pos.tickUpper)

\* the refreshed pool's tick sits on the upper bound: the flag is off
C15_Witness ==
  \E i \in ShownCards :
    /\ SnapshotPoolOf(clmmPositions[i]).currentTick = clmmPositions[i].tickUpper
    /\ ~cards[i].inRange

\* ========================================================================
\* Properties of the mint form
\* ========================================================================
\* the other amount cannot be derived from the range on screen
NotDerivable ==
  /\ selectedClmmPool # NoPoolSelected
  /\ \/ PriceOrZero(mintPriceLower) <= 0
     \/ PriceOrZero(mintPriceUpper) <= PriceOrZero(mintPriceLower)
     \/ selectedClmmPool.priceX6 <= 0

\* C16: an edit of one amount with a positive number, made while the other
\* amount cannot be derived, writes nothing into the other amount field.
C16_ManualInput ==
  [][/\ (mintCall'.ev = "amountA" /\ IsPositiveAmount(mintCall'.text) /\ NotDerivable)
          => mintAmountB' = mintAmountB
     /\ (mintCall'.ev = "amountB" /\ IsPositiveAmount(mintCall'.text) /\ NotDerivable)
          => mintAmountA' = mintAmountA]_vars

\* C17: while a pool is selected, mintTickLower and mintTickUpper are
\* multiples of its tickSpacing.
C17_TicksAligned ==
  selectedClmmPool # NoPoolSelected =>
    /\ mintTickLower % selectedClmmPool.tickSpacing = 0
    /\ mintTickUpper % selectedClmmPool.tickSpacing = 0

\* C18: every mintCLMMPosition call carries tickLower < tickUpper.
C18_OrderedRange ==
  mintCall.ev = "mintCLMMPosition" => mintCall.tickLower < mintCall.tickUpper

\* ========================================================================
\* Properties of the V2 quote
\* ========================================================================
ExamplePool == [reserveIn |-> 1000000, reserveOut |-> 2000000, feeBps |-> 30]

\* C19, as stated: with reserves (1000000, 2000000), fee 30 bps and amountIn
\* 10000, amountInAfterFee is 9970 and the quote is 19742.
C19_WorkedExample ==
  (quoted.pool = ExamplePool /\ 10000 \in DOMAIN quoted.asked) =>
    /\ AmountInAfterFee(10000, quoted.pool.feeBps) = 9970
    /\ quoted.asked[10000] = 19742

\* C19, amended: with the same inputs amountInAfterFee is 9970 and the
\* quote is 19743, the floor of 2000000 * 9970 / 1009970.
C19_WorkedExampleFloor ==
  (quoted.pool = ExamplePool /\ 10000 \in DOMAIN quoted.asked) =>
    /\ AmountInAfterFee(10000, quoted.pool.feeBps) = 9970
    /\ quoted.asked[10000] = 19743

C19_Witness ==
  /\ quoted.pool = ExamplePool
  /\ 10000 \in DOMAIN quoted.asked
  /\ quoted.asked[10000] = 19743

PositiveReserves ==
  /\ quoted.pool # NoPoolQuoted
  /\ quoted.pool.reserveIn > 0
  /\ quoted.pool.reserveOut > 0

\* C20, as stated: for fixed positive reserves and fee the quote is strictly
\* increasing in amountIn and strictly less than reserveOut.
C20_StrictlyIncreasing ==
  PositiveReserves =>
    /\ \A a1, a2 \in DOMAIN quoted.asked :
         a1 < a2 => quoted.asked[a1] < quoted.asked[a2]
    /\ \A a \in DOMAIN quoted.asked : quoted.asked[a] < quoted.pool.reserveOut

\* C20, amended: for fixed positive reserves and fee the quote is
\* non-decreasing in amountIn and strictly less than reserveOut.
C20_NonDecreasing ==
  PositiveReserves =>
    /\ \A a1, a2 \in DOMAIN quoted.asked :
         a1 < a2 => quoted.asked[a1] <= quoted.asked[a2]
    /\ \A a \in DOMAIN quoted.asked : quoted.asked[a] < quoted.pool.reserveOut

\* two different amounts were quoted the same positive output, and a larger
\* amount a larger one
C20_Witness ==
  /\ PositiveReserves
  /\ \E a1, a2 \in DOMAIN quoted.asked :
       a1 < a2 /\ quoted.asked[a1] = quoted.asked[a2] /\ quoted.asked[a1] > 0
  /\ \E a1, a2 \in DOMAIN quoted.asked :
       a1 < a2 /\ quoted.asked[a1] < quoted.asked[a2]

\* ========================================================================
\* Properties of the tick and price conversions
\* ========================================================================
\* C21: for every tick converted, the tick priceToTick returns for
\* tickToPrice(tick) converts to the same price again.
C21_RoundTrip ==
  \A t \in DOMAIN conv.prices :
    LET p == conv.prices[t]
    IN p \in DOMAIN conv.ticks =>
         /\ conv.ticks[p].returned \in DOMAIN conv.prices
         /\ conv.prices[conv.ticks[p].returned] = p

\* a tick other than 0 went to its price and back
C21_Witness ==
  \E t \in DOMAIN conv.prices :
    /\ t # 0
    /\ conv.prices[t] \in DOMAIN conv.ticks
    /\ conv.ticks[conv.prices[t]].returned = t

\* C22: priceToTick called with a price <= 0 ends in an error and returns
\* no tick to its caller.
C22_RejectsNonPositive ==
  \A p \in DOMAIN conv.ticks : p[1] <= 0 => conv.ticks[p].threw

\* ------------------------------------------------------------------------
\* the number of recordPrice calls a refresh made for one pool
CallsFor(entry, kind, id) ==
  Cardinality({k \in DOMAIN entry.recordCalls :
                 entry.recordCalls[k].kind = kind /\ entry.recordCalls[k].id = id})

\* a refresh that fetched the pools called recordPrice once for every V2 pool
\* with both reserves positive, with the price reserveB / reserveA, once for
\* every CLMM pool with a positive priceX6, and for no other pool
OncePerPool(entry) ==
  /\ \A i \in DOMAIN entry.pools :
       LET pool == entry.pools[i]
       IN IF pool.reserveA > 0 /\ pool.reserveB > 0
          THEN /\ CallsFor(entry, "v2", pool.id) = 1
               /\ \E k \in DOMAIN entry.recordCalls :
                    /\ entry.recordCalls[k].kind = "v2"
                    /\ entry.recordCalls[k].id = pool.id
                    /\ entry.recordCalls[k].price = (pool.reserveB * 1000) \div pool.reserveA
          ELSE CallsFor(entry, "v2", pool.id) = 0
  /\ \A i \in DOMAIN entry.clmmPools :
       LET pool == entry.clmmPools[i]
       IN CallsFor(entry, "clmm", pool.id) = IF pool.priceX6 > 0 THEN 1 ELSE 0
  /\ Len(entry.recordCalls) <= Len(entry.pools) + Len(entry.clmmPools)

\* a step that is no refresh leaves the history as it is
OnlyRefreshWrites == tx'.log = tx.log => store' = store

C30_NoPendingIndicator ==
  /\ tx.pc = "ended" =>
       /\ \A f \in LoadingFlags : ~tx.loading[f]
       /\ IF tx.loadingToast \in DOMAIN tx.toasts
          THEN tx.toasts[tx.loadingToast] \in {"success", "error"}
          ELSE tx.loadingToast \in DOMAIN tx.removed
       /\ tx.outcome \in {"code 4000", "code 4001", "thrown rejection"}
            => tx.removed[tx.loadingToast] = [by |-> "dismiss", was |-> "loading"]
  /\ \A id \in DOMAIN tx.removed :
       tx.removed[id].was = "loading" => tx.removed[id].by = "dismiss"
  /\ \A id \in DOMAIN tx.toasts :
       tx.toasts[id] = "loading" => id \notin tx.timers /\ tx.pc = "wallet"

\* a handler of the CLMM tab whose wallet call returned a code that is
\* neither 0 nor a rejection, with its error toast removed by its timer
C30_Witness ==
  /\ tx.pc = "ended"
  /\ tx.handler = "handleCollectFees"
  /\ tx.outcome = "other code"
  /\ tx.loadingToast \in DOMAIN tx.removed
  /\ tx.removed[tx.loadingToast] = [by |-> "timer", was |-> "error"]

\* ------------------------------------------------------------------------
\* the range the mint form shows is one a position can have
MintRangeShown ==
  /\ selectedClmmPool # NoPoolSelected
  /\ PriceOrZero(mintPriceLower) > 0
  /\ PriceOrZero(mintPriceLower) < PriceOrZero(mintPriceUpper)

\* C24: the mint form asks for the tokens the three-region rule gives the
\* new position: with the current price at or above the upper price only
\* token B (the field of token A disabled), with it at or below the lower
\* price only token A (the field of token B disabled), both otherwise
C24_FormAsksRuleTokens ==
  MintRangeShown =>
    LET pC == PriceOfX6(selectedClmmPool.priceX6)
        pL == PriceOfText(mintPriceLower)
        pU == PriceOfText(mintPriceUpper)
        needsA == NeedsA(selectedClmmPool.priceX6, mintPriceLower)
        needsB == NeedsB(selectedClmmPool.priceX6, mintPriceLower, mintPriceUpper)
    IN IF FracLeq(pU, pC) THEN needsB /\ ~needsA
       ELSE IF FracLeq(pC, pL) THEN needsA /\ ~needsB
       ELSE needsA /\ needsB

\* ------------------------------------------------------------------------
\* a number that is no price: at most zero, NaN or infinite
NotAPrice(num) ==
  IF num.number = "finite" THEN num.value <= 0
  ELSE num.number \in {"NaN", "Infinity", "-Infinity"}

\* a recordPrice call with such a number reads nothing and changes nothing
RejectedUntouched ==
  (lastCall'.op = "recordPrice" /\ lastCall' # lastCall /\ NotAPrice(lastCall'.number))
    => /\ ~lastCall'.read
       /\ ~lastCall'.threw
       /\ store' = store

\* C25: every stored point has a price above zero, and a recordPrice call
\* with a price that is at most zero, NaN or infinite returns without
\* reading the store and without changing it
C25_StoredPricesPositive ==
  /\ [](ReadsPairs(getStorageData(store, now)) =>
          \A p \in DOMAIN getStorageData(store, now).pairs :
            \A i \in DOMAIN getStorageData(store, now).pairs[p] :
              getStorageData(store, now).pairs[p][i].price > 0)
  /\ [][RejectedUntouched]_vars

\* a call with NaN made over an item whose reading would have raised
C25_Witness ==
  /\ lastCall.op = "recordPrice"
  /\ lastCall.number = NotANumber
  /\ ~lastCall.read
  /\ store = JsonNull

\* ------------------------------------------------------------------------
\* the positions of the points of the last 24 hours
InWindow(pts) == {i \in 1..Len(pts) : pts[i].timestamp > now - 86400000}

\* the timestamps never go down along the series
NonDecreasing(pts) ==
  \A i \in 1..Len(pts) : \A j \in i..Len(pts) : pts[i].timestamp <= pts[j].timestamp

\* C29: for a pair whose stored timestamps are non-decreasing and that has
\* a point of the last 24 hours, getPriceStats reports
\* low24h <= current <= high24h, and change24h is current minus the price of
\* the oldest point of the window
C29_StatsBounds ==
  lastCall.op = "getPriceStats" =>
    LET pts == StoredPoints(store, lastCall.pair)
    IN (NonDecreasing(pts) /\ InWindow(pts) # {}) =>
         LET oldest == CHOOSE i \in InWindow(pts) : \A j \in InWindow(pts) : i <= j
         IN /\ statsOut # NoStats
            /\ statsOut.low24h <= statsOut.current
            /\ statsOut.current <= statsOut.high24h
            /\ statsOut.change24h = statsOut.current - pts[oldest].price

\* statistics of a pair whose first point has left the window and whose
\* price has moved inside the window
C29_Witness ==
  /\ lastCall.op = "getPriceStats"
  /\ statsOut # NoStats
  /\ LET pts == StoredPoints(store, lastCall.pair)
     IN /\ InWindow(pts) # {}
        /\ 1 \notin InWindow(pts)
        /\ pts[1].price # pts[2].price
        /\ statsOut.change24h # 0
        /\ statsOut.low24h < statsOut.high24h

\* ========================================================================
\* Properties of the swap form while quotes are in flight
\* ========================================================================
\* C26: a bestQuote that is not null belongs to the pair now selected: the
\* denom on its tokenIn side is fromToken and the denom on its other side is
\* toToken, whatever the order of selections, flips, timer and completions
C26_QuoteOfSelectedPair ==
  bestQuote # NoQuote =>
    /\ DenomOnSide(PoolOf(bestQuote), bestQuote.tokenIn) = fromToken
    /\ DenomOnSide(PoolOf(bestQuote), OtherSide(bestQuote.tokenIn)) = toToken

\* C27: the amountIn of a submitted swap is the amount its quote, the one
\* minAmountOut is derived from, was computed for
C27_SwapsQuotedAmount ==
  swapCall # NoSwap =>
    /\ swapCall.quote = bestQuote
    /\ swapCall.amountIn = quoteAmountIn

\* ------------------------------------------------------------------------
\* the queries of a completed invocation that failed: the call was rejected
\* or brought no amount
FailedQueries(d) == {i \in DOMAIN d.answers : d.answers[i] = Threw \/ d.answers[i] = <<0>>}

\* the queries that brought an amount the selection accepts
UsableQueries(d) ==
  {i \in DOMAIN d.answers \ FailedQueries(d) :
     d.queries[i].poolType = "clmm" => 4 * d.answers[i][1] <= d.queries[i].pool.liquidity}

\* C28: when a quote query of an invocation has failed, every other pool of
\* the pair has still been asked and has answered, and bestQuote is the best
\* among the queries that succeeded, or null when none did
C28_FailureSkipsOnePool ==
  (done # NoRun /\ FailedQueries(done) # {}) =>
    /\ Len(done.answers) = Len(done.queries)
    /\ \A p \in EligibleV2(done) :
         \E i \in DOMAIN done.answers :
           done.queries[i].poolType = "v2" /\ done.queries[i].pool = p
    /\ \A p \in EligibleClmm(done) :
         \E i \in DOMAIN done.answers :
           done.queries[i].poolType = "clmm" /\ done.queries[i].pool = p
    /\ IF UsableQueries(done) = {} THEN bestQuote = NoQuote
       ELSE /\ bestQuote # NoQuote
            /\ \A i \in UsableQueries(done) : done.answers[i][1] <= bestQuote.amountOut
            /\ \E i \in UsableQueries(done) :
                 /\ done.answers[i][1] = bestQuote.amountOut
                 /\ done.queries[i].poolType = bestQuote.poolType
                 /\ done.queries[i].pool = PoolOf(bestQuote)

\* an invocation whose first query was rejected, whose second query brought
\* the best amount and whose last query brought none
C28_Witness ==
  /\ done # NoRun
  /\ Len(done.answers) >= 3
  /\ done.answers[1] = Threw
  /\ done.answers[Len(done.answers)] = <<0>>
  /\ bestQuote # NoQuote
  /\ bestQuote.poolType = "v2"
  /\ bestQuote.pool = done.queries[2].pool
  /\ bestQuote.amountOut = 1999999
====
